---------------------------- MODULE Spec2Model ----------------------------
(***************************************************************************)
(* Model of the chat orchestration core of the property chat agent         *)
(* (server.js, kept here as src/unnamed/part_007): the POST /api/chat      *)
(* handler with its security screen, quota accounting, model fallback      *)
(* chain and response sanitizer.                                           *)
(*                                                                         *)
(* The handler is an async function; every action below is one segment of  *)
(* it between two awaits, so that concurrent requests interleave exactly   *)
(* where the event loop lets them.                                         *)
(***************************************************************************)
EXTENDS Integers, Sequences, FiniteSets, TLC

(***************************************************************************)
(* Bounds of the model.                                                    *)
(***************************************************************************)
\* longest text handed to sanitizeResponse, in tokens
MaxLen == 3
\* most phrases in one chat message
MaxPhrases == 2
\* last instant of the abstract clock
MaxTime == 4
\* most prompt / candidate tokens reported by one model call
MaxTok == 1
\* last instant of the clock of the catalog store
MaxStoreTime == 2
\* first day that a date correction may run on, and the number of such days
FirstDay == 7
MaxDays == 7
\* most date phrases of a conversation
MaxDatePhrases == 2
\* most listings of a searched catalog
MaxCatalog == 2
\* most listings of a catalog searched for the display caps
MaxCapCatalog == 6
\* monthly ceilings of the two plans, in abstract token units
FreeMonthly == 2
PaidMonthly == 3

(***************************************************************************)
(* Program constants.                                                      *)
(***************************************************************************)
\* MODEL_PRIORITY.length
NumModels == 7
\* 30 days, in ticks of the abstract clock
TOKEN_RESET_INTERVAL == 2

ModelNames == <<"gemini-2.5-flash-lite", "gemini-2.5-flash", "gemini-2.5-pro",
                "gemini-2.0-flash-lite-001", "gemini-2.0-flash", "gemini-1.5-flash",
                "gemini-2.0-flash-exp">>

MODEL_PRIORITY == [i \in 0..(NumModels - 1) |-> ModelNames[i + 1]]

TOKEN_LIMITS == [free |-> [monthly |-> FreeMonthly], paid |-> [monthly |-> PaidMonthly]]

Tenants == {"cernanlantang.raywhite.co.id", "menteng.raywhite.co.id", "www.raywhite.co.id"}

Reqs == {"r1", "r2"}

(***************************************************************************)
(* Texts.  A text is a sequence of tokens separated by blanks; each token  *)
(* stands for one concrete string:                                         *)
(*   word    "rumah"                  rw     "raywhite"                    *)
(*   femail  "john@gmail.com"         temail "agent@raywhite.co.id"        *)
(*   furl    "https://99.co/p"        turl   "https://www.raywhite.co.id/p"*)
(*   phone   "0812-3456-7890"         cred   "api_key=abcdefghijklmnopqr"  *)
(*   nl      a line break                                                  *)
(***************************************************************************)
Tokens == {"word", "rw", "femail", "temail", "furl", "turl", "phone", "cred", "nl"}

Placeholders == {"[CONTACT REDACTED]", "[PHONE REDACTED]",
                 "[EXTERNAL LINK REMOVED]", "[CREDENTIALS REDACTED]"}

Texts == UNION {[1..n -> Tokens] : n \in 0..MaxLen}

\* the tokens that contain the substring "raywhite"
HasRaywhite == {"rw", "temail", "turl"}

\* the tokens that contain the substring "raywhite.co.id"
HasRaywhiteCoId == {"temail", "turl"}

\* the part of the token after its "@" (resp. "://") contains the substring
OwnTailHas(tok, having) == tok \in {"temail", "turl"} /\ tok \in having

\* `.*X` tried from inside token i: X occurs in the rest of token i or in a
\* later token of the same line ("." does not match a line break)
RestOfLineHas(text, i, having) ==
    \/ OwnTailHas(text[i], having)
    \/ \E j \in (i + 1)..Len(text) :
          /\ text[j] \in having
          /\ \A k \in (i + 1)..j : text[k] # "nl"

\* the places where emailPattern matches: an address whose "@" is not
\* followed, anywhere on the line, by "raywhite"
emailPattern(text) ==
    {i \in 1..Len(text) : /\ text[i] \in {"femail", "temail"}
                          /\ ~RestOfLineHas(text, i, HasRaywhite)}

phonePattern(text) == {i \in 1..Len(text) : text[i] = "phone"}

\* the places where urlPattern matches: a URL whose "://" is not followed,
\* anywhere on the line, by "raywhite.co.id"
urlPattern(text) ==
    {i \in 1..Len(text) : /\ text[i] \in {"furl", "turl"}
                          /\ ~RestOfLineHas(text, i, HasRaywhiteCoId)}

tokenPattern(text) == {i \in 1..Len(text) : text[i] = "cred"}

\* String.prototype.replace with a global pattern: every match, found on the
\* text as it is before the pass, becomes the placeholder
ReplaceAll(text, matches, placeholder) ==
    [i \in 1..Len(text) |-> IF i \in matches THEN placeholder ELSE text[i]]

sanitizeResponse(responseText) ==
    LET emails == emailPattern(responseText)
        s1 == ReplaceAll(responseText, emails, "[CONTACT REDACTED]")
        phones == phonePattern(s1)
        s2 == ReplaceAll(s1, phones, "[PHONE REDACTED]")
        urls == urlPattern(s2)
        s3 == ReplaceAll(s2, urls, "[EXTERNAL LINK REMOVED]")
        creds == tokenPattern(s3)
        s4 == ReplaceAll(s3, creds, "[CREDENTIALS REDACTED]")
        w1 == IF Cardinality(emails) > 0 THEN <<"email">> ELSE <<>>
        w2 == IF Cardinality(phones) > 0 THEN <<"phone">> ELSE <<>>
        w3 == IF Cardinality(urls) > 0 THEN <<"link">> ELSE <<>>
        w4 == IF creds # {} THEN <<"credentials">> ELSE <<>>
    IN  [sanitized |-> s4, warnings |-> w1 \o w2 \o w3 \o w4]

(***************************************************************************)
(* Chat messages.  A message is a set of phrases (joined by blanks); the   *)
(* empty set is the empty string and NoMessage a missing or non-string     *)
(* message.                                                                *)
(***************************************************************************)
Phrases == {"ignore previous instructions", "password", "delete feedback",
            "http://99.co", "cari rumah", "compare"}

NoMessage == {"<not a string>"}

Messages == {m \in SUBSET Phrases : Cardinality(m) <= MaxPhrases} \cup {NoMessage}

Threat(type, severity) == [type |-> type, severity |-> severity]

\* one threat per matching pattern, in the order of the six pattern groups
detectMaliciousPrompt(message) ==
    LET has(p) == p \in message
        promptInjection ==
            IF has("ignore previous instructions")
            THEN <<Threat("PROMPT_INJECTION", "HIGH")>> ELSE <<>>
        \* /(?:api|secret|token|key|password|credential)/i
        piiCredential ==
            IF has("password")
            THEN <<Threat("PII_EXTRACTION_ATTEMPT", "CRITICAL")>> ELSE <<>>
        \* /SQL|SELECT|INSERT|UPDATE|DELETE|DROP|TABLE|DATABASE/i
        piiSql ==
            IF has("delete feedback")
            THEN <<Threat("PII_EXTRACTION_ATTEMPT", "CRITICAL")>> ELSE <<>>
        competitorLink ==
            IF has("http://99.co")
            THEN <<Threat("COMPETITOR_LINK", "MEDIUM")>> ELSE <<>>
        \* /(?:delete|remove|clear).*feedback/i
        feedbackManipulation ==
            IF has("delete feedback")
            THEN <<Threat("FEEDBACK_MANIPULATION", "HIGH")>> ELSE <<>>
    IN  promptInjection \o piiSql \o piiCredential \o competitorLink
            \o feedbackManipulation

SeverityCount(threats, severity) ==
    Cardinality({i \in 1..Len(threats) : threats[i].severity = severity})


(***************************************************************************)
(* Listings and the search filters.  A text field of a listing is the set   *)
(* of the words it holds; `title` stands for title and description, which   *)
(* every filter reads together.  A price is the text of the price field.    *)
(***************************************************************************)
Listing(id, location, title, type, price, bedrooms) ==
    [id |-> id, location |-> location, title |-> title, type |-> type,
     price |-> price, bedrooms |-> bedrooms, description |-> 0,
     url |-> "https://" \o id, image |-> "img:" \o id, eflyer |-> "eflyer:" \o id]

\* the listing with a description of the given number of characters (the
\* description field of a listing is the length of its text)
Described(p, length) == [p EXCEPT !.description = length]

\* the length above which a description is cut
DescriptionMax == 2000

\* description.substring(0, 2000) + '...' where the description is longer
\* than 2000 characters
truncateDescription(p) ==
    IF p.description > DescriptionMax
    THEN [p EXCEPT !.description = DescriptionMax + 3]
    ELSE p

truncateDescriptions(list) == [i \in 1..Len(list) |-> truncateDescription(list[i])]

\* parseFloat of a text without a leading digit
NaN == -1

\* the numericValue a price filter reads from a price text, in milyar.  A
\* text with "milyar" gives the number before it; a text with "m " gives
\* the number before it in millions where the filter has that branch
\* (mBranch) and falls to the numeric branch elsewhere; a text without a
\* unit word and without separator stays 0; a text without a unit word and
\* with one dot goes through parseFloat, NaN when it has no digits
numericValue(price, mBranch) ==
    CASE price = "Rp. 1 Milyar" -> 1
      [] price = "Rp. 2 Milyar" -> 2
      [] price = "Rp. 3000 M nego" -> IF mBranch THEN 3 ELSE 0
      [] price = "Contact for price" -> 0
      [] price = "Call us." -> NaN
      [] OTHER -> 0

\* the price test of a filter: a listing without a price is dropped, one
\* whose numericValue is 0 is kept, and a comparison with NaN is false
priceFilter(p, max_price, mBranch) ==
    IF p.price = "" THEN FALSE
    ELSE IF numericValue(p.price, mBranch) = 0 THEN TRUE
    ELSE IF numericValue(p.price, mBranch) = NaN THEN FALSE
    ELSE numericValue(p.price, mBranch) <= max_price

\* the searchText of the location filters
searchText(p) == p.location \cup p.title

\* criteria of a search call; {} , "" and 0 are the absent arguments
Criteria(location, type, keyword, property_category, max_price, min_bedrooms) ==
    [location |-> location, type |-> type, keyword |-> keyword,
     property_category |-> property_category, max_price |-> max_price,
     min_bedrooms |-> min_bedrooms]

\* the category test of search_properties, on location, title and description
categoryFilter(p, category) ==
    LET textToSearch == p.location \cup p.title
    IN  CASE category = "rumah" ->
                /\ "rumah" \in textToSearch
                /\ textToSearch \cap {"apartemen", "ruko", "gedung", "tanah"} = {}
          [] category = "apartemen" -> "apartemen" \in textToSearch
          [] category = "ruko" -> "ruko" \in textToSearch
          [] OTHER -> TRUE

\* the category test of search_office_database, on the location alone
levelCategoryFilter(p, category) ==
    CASE category = "rumah" ->
            "rumah" \in p.location /\ p.location \cap {"apartemen", "ruko"} = {}
      [] category = "apartemen" -> "apartemen" \in p.location
      [] category = "ruko" -> "ruko" \in p.location
      [] OTHER -> TRUE

\* words the broadened search drops from the location
stopWords == {"jalan", "daerah", "area", "dekat"}

\* the filters the primary and the broadened search share; the price test
\* of the primary search alone has the "m " branch
otherFilters(p, args, mBranch) ==
    /\ args.type # "" => p.type = args.type
    /\ args.keyword # "" => args.keyword \in p.title
    /\ args.property_category # "" => categoryFilter(p, args.property_category)
    /\ args.max_price # 0 => priceFilter(p, args.max_price, mBranch)

\* the primary filter of search_properties: every word of the location occurs
\* in the searchText
primaryFilter(list, args) ==
    LET keep(p) == /\ args.location # {} => args.location \subseteq searchText(p)
                   /\ otherFilters(p, args, TRUE)
    IN  SelectSeq(list, keep)

\* the broadened search: some significant word of the location occurs
broadFilter(list, args) ==
    LET tokens == args.location \ stopWords
        keep(p) == tokens \cap searchText(p) # {} /\ otherFilters(p, args, FALSE)
    IN  SelectSeq(list, keep)

\* the category fallbacks: the location as a phrase in one field, the type,
\* the keyword (apartments only), the category word in the location, the price
ladderFilter(list, args, category) ==
    LET keep(p) ==
            /\ args.location # {} =>
                  args.location \subseteq p.location \/ args.location \subseteq p.title
            /\ args.type # "" => p.type = args.type
            /\ (category = "apartemen" /\ args.keyword # "") => args.keyword \in p.title
            /\ category \in p.location
            /\ args.max_price # 0 => priceFilter(p, args.max_price, FALSE)
    IN  SelectSeq(list, keep)

\* a slice that keeps the whole list
slice_all(list, n) == list

\* results.slice(0, n)
slice(list, n) == SubSeq(list, 1, IF Len(list) < n THEN Len(list) ELSE n)

\* a search in which the category fallbacks run whenever the primary result
\* is empty, whatever the broadened search found
search_properties_both(tenantProperties, properties, args) ==
    LET top0 == truncateDescriptions(slice(primaryFilter(tenantProperties, args), 3))
        broadened == top0 = <<>> /\ args.location # {}
        broad == IF broadened /\ args.location \ stopWords # {}
                 THEN broadFilter(tenantProperties, args) ELSE <<>>
        top1 == IF broad # <<>> THEN slice(broad, 3) ELSE top0
        msg1 == IF broad # <<>> THEN "broadened" ELSE ""
        ladder == top0 = <<>> /\ args.property_category = "rumah"
        apartmentResults == IF ladder THEN ladderFilter(properties, args, "apartemen")
                            ELSE <<>>
        rukoResults == IF ladder /\ apartmentResults = <<>>
                       THEN ladderFilter(properties, args, "ruko") ELSE <<>>
        attempted == (IF broadened THEN {"location"} ELSE {})
                        \cup (IF ladder THEN {"category"} ELSE {})
    IN  IF apartmentResults # <<>>
        THEN [topResults |-> slice(apartmentResults, 3), fallbackMessage |-> "apartments",
              attempted |-> attempted]
        ELSE IF rukoResults # <<>>
        THEN [topResults |-> slice(rukoResults, 3), fallbackMessage |-> "shophouses",
              attempted |-> attempted]
        ELSE [topResults |-> top1, fallbackMessage |-> msg1, attempted |-> attempted]

\* search_properties: the listings returned, the note appended to the reply
\* and the fallback ladders that were attempted; tenantProperties is the
\* catalog resolved for the tenant, properties the global array of
\* single-tenant mode
search_properties(tenantProperties, properties, args) ==
    LET top0 == truncateDescriptions(slice(primaryFilter(tenantProperties, args), 3))
        broadened == top0 = <<>> /\ args.location # {}
        broad == IF broadened /\ args.location \ stopWords # {}
                 THEN broadFilter(tenantProperties, args) ELSE <<>>
        top1 == IF broad # <<>> THEN slice(broad, 3) ELSE top0
        msg1 == IF broad # <<>> THEN "broadened" ELSE ""
        ladder == top1 = <<>> /\ args.property_category = "rumah"
        apartmentResults == IF ladder THEN ladderFilter(properties, args, "apartemen")
                            ELSE <<>>
        rukoResults == IF ladder /\ apartmentResults = <<>>
                       THEN ladderFilter(properties, args, "ruko") ELSE <<>>
        attempted == (IF broadened THEN {"location"} ELSE {})
                        \cup (IF ladder THEN {"category"} ELSE {})
    IN  IF apartmentResults # <<>>
        THEN [topResults |-> slice(apartmentResults, 3), fallbackMessage |-> "apartments",
              attempted |-> attempted]
        ELSE IF rukoResults # <<>>
        THEN [topResults |-> slice(rukoResults, 3), fallbackMessage |-> "shophouses",
              attempted |-> attempted]
        ELSE [topResults |-> top1, fallbackMessage |-> msg1, attempted |-> attempted]

\* the per-level steps of search_office_database: mark, then filter
markedProps(levelProps, priorityLevel) ==
    [i \in 1..Len(levelProps) |->
        [p |-> levelProps[i], sourceTenant |-> priorityLevel.source,
         sourceLevel |-> priorityLevel.level, sourceLabel |-> priorityLevel.label]]

levelFilter(marked, args) ==
    LET keep(m) ==
            /\ args.location # {} =>
                  args.location \subseteq m.p.location \/ args.location \subseteq m.p.title
            /\ args.type # "" => m.p.type = args.type
            /\ args.property_category # "" =>
                  levelCategoryFilter(m.p, args.property_category)
            /\ args.max_price # 0 => priceFilter(m.p, args.max_price, FALSE)
            /\ args.min_bedrooms # 0 =>
                  m.p.bedrooms # 0 /\ m.p.bedrooms >= args.min_bedrooms
    IN  SelectSeq(marked, keep)

\* a listing keeping every field of the catalog entry, url included
officeResult_spread(m) ==
    [id |-> m.p.id, title |-> m.p.title, location |-> m.p.location,
     price |-> m.p.price, type |-> m.p.type, bedrooms |-> m.p.bedrooms,
     description |-> truncateDescription(m.p).description,
     url |-> m.p.url, image |-> m.p.image, eflyer |-> m.p.eflyer,
     sourceTenant |-> m.sourceTenant, sourceLevel |-> m.sourceLevel,
     sourceLabel |-> m.sourceLabel]

\* one entry of the topResults of search_office_database
officeResult(m) ==
    [id |-> m.p.id, title |-> m.p.title, location |-> m.p.location,
     price |-> m.p.price, type |-> m.p.type, bedrooms |-> m.p.bedrooms,
     description |-> truncateDescription(m.p).description,
     image |-> m.p.image, eflyer |-> m.p.eflyer,
     sourceTenant |-> m.sourceTenant, sourceLevel |-> m.sourceLevel,
     sourceLabel |-> m.sourceLabel]

officeTopResults(results) ==
    LET top == slice(results, 5) IN [i \in 1..Len(top) |-> officeResult(top[i])]

\* propertiesForModel of search_properties: url and imageUrl are stripped
forModel(p) ==
    [id |-> p.id, title |-> p.title, location |-> p.location, price |-> p.price,
     type |-> p.type, bedrooms |-> p.bedrooms, description |-> p.description,
     image |-> p.image, eflyer |-> p.eflyer]

(***************************************************************************)
(* State.                                                                  *)
(***************************************************************************)
VARIABLES
    now,                 \* Date.now()
    tokenUsageByTenant,  \* Map tenant -> usage record
    currentModelIndex,   \* index into MODEL_PRIORITY, shared by all tenants
    model,               \* model name used for new chats
    propertiesByTenant,  \* Map tenant -> [properties, lastUpdated]
    cobrokerageConfig,   \* Map tenant -> [enabled]
    incidents,           \* records added to the security_incidents collection
    req,                 \* the chat requests in flight, by request
    sanIn, sanOut,       \* argument and result of a sanitizeResponse call
    searchIn, searchOut, \* argument and result of a search_properties call
    tenantIn, tenantOut, \* argument and result of a getTenantId call
    notify,              \* the /gcs-notify request in flight
    dateIn, dateOut,     \* arguments and result of a validateAndCorrectDate call
    hierarchy,           \* the officeHierarchy object: tenant -> [office, national]
    issued,              \* the session tokens POST /admin/login has answered with
    adminReq             \* the last request to an admin endpoint

vars == <<now, tokenUsageByTenant, currentModelIndex, model, propertiesByTenant,
          cobrokerageConfig, incidents, req, sanIn, sanOut, searchIn, searchOut, tenantIn, tenantOut, notify, dateIn, dateOut, hierarchy, issued, adminReq>>

\* PROPERTIES_POLL_SEC, in ticks of the abstract clock
PROPERTIES_POLL_SEC == 2

Plans == {"free", "paid"}

Tools == {"search_properties", "search_office_database", "collect_visitor_info",
          "send_inquiry_email", "schedule_viewing"}

\* error messages of a failed model call, by the substring the handler tests
ModelErrors == {"RESOURCE_EXHAUSTED", "Not Found", "INVALID_ARGUMENT", "UNAVAILABLE"}

\* texts the model answers with: plain words, a listing-shaped answer
\* ("Rumah ... Harga: Rp. ..."), or an answer leaking a foreign address
ModelTexts == {<<"word">>, <<"prop">>, <<"femail">>}

RefusalText == <<"refusal">>
RetryText == <<"retry">>
ApologyText == <<"apology">>
DifficultyText == <<"difficulty">>
ConfirmationText == <<"confirmation">>

\* the catalog the backing source holds for a tenant: a house in Kemang for
\* the agent, a house and an apartment in Menteng for the office, a shophouse
\* and a house in Kemang for the national site
SourceCatalog(t) ==
    CASE t = "cernanlantang.raywhite.co.id" ->
            <<Listing("c1", {"rumah", "kemang"}, {}, "sale", "Rp. 2 Milyar", 3)>>
      [] t = "menteng.raywhite.co.id" ->
            <<Listing("m1", {"rumah", "menteng"}, {}, "sale", "Rp. 1 Milyar", 2),
              Described(Listing("m2", {"apartemen", "menteng"}, {"kolam"}, "sale",
                                "Rp. 1 Milyar", 1), 2500)>>
      [] OTHER ->
            <<Listing("w1", {"ruko", "kemang"}, {}, "sale", "Contact for price", 0),
              Listing("w2", {"rumah", "kemang"}, {}, "sale", "Rp. 2 Milyar", 2)>>

\* a global array that holds the national site's catalog
properties_shared == SourceCatalog("www.raywhite.co.id")

\* the global `properties` array: it is assigned in single-tenant mode only
\* and the handler is modelled in multi-tenant mode
properties == <<>>

NoCriteria == Criteria({}, "", "", "", 0, 0)

\* the criteria of the search calls the model makes in a chat
ChatCriteria == {Criteria(loc, "", "", "", 0, 0) : loc \in {{}, {"kemang"}, {"bali"}}}

\* searchedLevel before any level matched
NoLevel == [level |-> 0, source |-> "unknown", label |-> "unknown"]

PriorityLevel(level, source, label) == [level |-> level, source |-> source, label |-> label]

DEFAULT_TENANT == "default"

\* getTenantId: req.headers['x-tenant-id'] || req.query.tenant ||
\* req.body?.tenant || DEFAULT_TENANT in multi-tenant mode
getTenantId(multiTenant, header, query, body) ==
    IF ~multiTenant THEN DEFAULT_TENANT
    ELSE IF header # "" THEN header
    ELSE IF query # "" THEN query
    ELSE IF body # "" THEN body
    ELSE DEFAULT_TENANT

\* no /gcs-notify request is in flight
\* `installed` keeps, per tenant, the entry the last notification set
NoNotify == [pc |-> "idle", src |-> "", status |-> 0, installed |-> <<>>]

\* the office hierarchy the server starts with
officeHierarchy ==
    [t \in {"cernanlantang.raywhite.co.id"} |->
        [office |-> "menteng.raywhite.co.id", national |-> "www.raywhite.co.id"]]

IdleReq == [pc |-> "idle", tenant |-> "", msg |-> {}, status |-> 0,
            hasText |-> FALSE, text |-> <<>>, log |-> <<>>, calls |-> 0,
            retries |-> 0, usedModel |-> "", err |-> "", tool |-> "none",
            mtext |-> <<>>, t0 |-> 0, ret |-> "", src |-> "", path |-> "",
            levels |-> <<>>, got |-> <<>>, props |-> <<>>, fcalls |-> <<>>,
            args |-> NoCriteria, results |-> <<>>, sent |-> <<>>, note |-> "",
            searchedLevel |-> NoLevel, searchPriority |-> <<>>, resolved |-> <<>>,
            validation |-> <<>>, tracked |-> <<>>, trackedAt |-> 0]

Init ==
    /\ now = 0
    /\ tokenUsageByTenant = <<>>
    /\ currentModelIndex = 0
    /\ model = MODEL_PRIORITY[0]
    /\ propertiesByTenant = <<>>
    /\ cobrokerageConfig = <<>>
    /\ incidents = <<>>
    /\ req = [r \in Reqs |-> IdleReq]
    /\ sanIn = <<>>
    /\ sanOut = [sanitized |-> <<>>, warnings |-> <<>>]
    /\ searchIn = [multiTenant |-> TRUE, catalog |-> <<>>, args |-> NoCriteria]
    /\ searchOut = [done |-> FALSE, topResults |-> <<>>, fallbackMessage |-> "",
                    attempted |-> {}, filtered |-> <<>>, officeResults |-> <<>>]
    /\ tenantIn = [multiTenant |-> TRUE, header |-> "", query |-> "", body |-> ""]
    /\ tenantOut = [done |-> FALSE, tenantId |-> ""]
    /\ notify = NoNotify
    /\ dateIn = [today |-> 0, zone |-> "utc",
                 preferredDate |-> [valid |-> FALSE, day |-> 0], context |-> {}]
    /\ dateOut = [done |-> FALSE, date |-> 0]
    /\ hierarchy = officeHierarchy
    /\ issued = {}
    /\ adminReq = [endpoint |-> "", adminKey |-> "", sessionToken |-> "", status |-> 0]

\* Map.set
MapSet(map, k, v) == [x \in (DOMAIN map) \cup {k} |-> IF x = k THEN v ELSE map[x]]

Logged(rec, ev) == [rec EXCEPT !.log = Append(@, ev)]

\* res.status(status).json(...) followed by return
Respond(rec, status, hasText, text) ==
    [rec EXCEPT !.pc = "done", !.status = status, !.hasText = hasText, !.text = text]

(***************************************************************************)
(* Token usage.                                                            *)
(***************************************************************************)
\* totalCost is in units of $0.0000001 (the cost of one input token)
NewUsage == [inputTokens |-> 0, outputTokens |-> 0, totalCost |-> 0,
             requestCount |-> 0, lastReset |-> now, plan |-> "free"]

initTenantUsage(tenantId) ==
    IF tenantId \in DOMAIN tokenUsageByTenant
    THEN tokenUsageByTenant
    ELSE MapSet(tokenUsageByTenant, tenantId, NewUsage)

\* a function that never starts a new window
trackTokenUsage_noreset(tenantId, inputTokens, outputTokens) ==
    LET usage == initTenantUsage(tenantId)[tenantId]
    IN  MapSet(tokenUsageByTenant, tenantId,
               [usage EXCEPT !.inputTokens = @ + inputTokens,
                             !.outputTokens = @ + outputTokens,
                             !.requestCount = @ + 1,
                             !.totalCost = @ + inputTokens + 3 * outputTokens])

trackTokenUsage(tenantId, inputTokens, outputTokens) ==
    LET usage == initTenantUsage(tenantId)[tenantId]
        reset == IF now - usage.lastReset > TOKEN_RESET_INTERVAL
                 THEN [usage EXCEPT !.inputTokens = 0, !.outputTokens = 0,
                                    !.totalCost = 0,
                                    !.requestCount = 0, !.lastReset = now]
                 ELSE usage
    IN  MapSet(tokenUsageByTenant, tenantId,
               [reset EXCEPT !.inputTokens = @ + inputTokens,
                             !.outputTokens = @ + outputTokens,
                             !.requestCount = @ + 1,
                             !.totalCost = @ + inputTokens + 3 * outputTokens])

\* the limit test with > in place of >=
checkTokenLimit_strict(tenantId) ==
    LET usage == initTenantUsage(tenantId)[tenantId]
        limit == TOKEN_LIMITS[usage.plan].monthly
        totalTokens == usage.inputTokens + usage.outputTokens
    IN  [exceeded |-> totalTokens > limit, used |-> totalTokens, limit |-> limit,
         warning |-> FALSE]

checkTokenLimit(tenantId) ==
    LET usage == initTenantUsage(tenantId)[tenantId]
        limit == TOKEN_LIMITS[usage.plan].monthly
        totalTokens == usage.inputTokens + usage.outputTokens
    IN  IF totalTokens >= limit
        THEN [exceeded |-> TRUE, used |-> totalTokens, limit |-> limit, warning |-> FALSE]
        ELSE [exceeded |-> FALSE, used |-> totalTokens, limit |-> limit,
              warning |-> totalTokens * 100 > 80 * limit]


(***************************************************************************)
(* Tenant property store.                                                  *)
(***************************************************************************)
\* getPropertiesForTenant up to its first await, in multi-tenant mode: the
\* cached list when the entry is fresh, otherwise a load is started and
\* a test that takes every entry as fresh
CacheFresh_entry(tenantId) == tenantId \in DOMAIN propertiesByTenant

\* Date.now() is kept for the entry's timestamp
CacheFresh(tenantId) ==
    /\ tenantId \in DOMAIN propertiesByTenant
    /\ now - propertiesByTenant[tenantId].lastUpdated < PROPERTIES_POLL_SEC

\* the request after calling getPropertiesForTenant from place `ret`
getPropertiesForTenant(rec, tenantId, ret) ==
    IF CacheFresh(tenantId)
    THEN [Logged(rec, "resolve") EXCEPT !.pc = ret,
                                        !.got = propertiesByTenant[tenantId].properties,
                                        !.resolved = Append(@, tenantId)]
    ELSE [Logged(rec, "resolve") EXCEPT !.pc = "loading", !.ret = ret,
                                        !.src = tenantId, !.t0 = now,
                                        !.resolved = Append(@, tenantId)]

(***************************************************************************)
(* POST /api/chat, from the arrival of the request to the quota check.     *)
(***************************************************************************)
\* only CRITICAL threats block
Blocked_criticalOnly(threats) == SeverityCount(threats, "CRITICAL") > 0

Blocked(threats) ==
    SeverityCount(threats, "CRITICAL") > 0 \/ SeverityCount(threats, "HIGH") > 0

\* the record with its blocked flag set whatever the severities
Incident_flagged(tenantId, message, threats) ==
    [tenantId |-> tenantId, message |-> message, threats |-> threats, blocked |-> TRUE]

Incident(tenantId, message, threats) ==
    [tenantId |-> tenantId, message |-> message, threats |-> threats,
     blocked |-> Blocked(threats)]

\* a validation that lets every body through
validMessage_any(message) == TRUE

\* !message || typeof message !== 'string' is false
validMessage(message) == message # NoMessage /\ message # {}

\* the request arrives: message validation, tenant, security screen; with
\* threats the incident is added to the log and the handler awaits the add,
\* without threats it goes on to resolve the tenant's catalog
Receive(r, tenantId, message) ==
    /\ req[r].pc = "idle"
    /\ LET rec == [req[r] EXCEPT !.tenant = tenantId, !.msg = message]
           threats == detectMaliciousPrompt(message)
       IN  IF ~validMessage(message)
           THEN /\ req' = [req EXCEPT ![r] = Respond(rec, 400, FALSE, <<>>)]
                /\ UNCHANGED incidents
           ELSE IF Len(threats) > 0
           THEN /\ incidents' = Append(incidents, Incident(tenantId, message, threats))
                /\ req' = [req EXCEPT ![r] =
                              [Logged(Logged(rec, "screen"), "incident")
                                  EXCEPT !.pc = "incident"]]
           ELSE /\ req' = [req EXCEPT ![r] =
                              getPropertiesForTenant(Logged(rec, "screen"), tenantId, "props")]
                /\ UNCHANGED incidents
    /\ UNCHANGED <<now, tokenUsageByTenant, currentModelIndex, model,
                   propertiesByTenant, cobrokerageConfig, sanIn, sanOut,
                   searchIn, searchOut, tenantIn, tenantOut, notify, dateIn, dateOut, hierarchy, issued, adminReq>>

\* the add to security_incidents has settled (its failure is only logged):
\* CRITICAL and HIGH threats end the request with the refusal, MEDIUM ones
\* let it go on to the catalog
AfterIncident(r) ==
    /\ req[r].pc = "incident"
    /\ LET threats == detectMaliciousPrompt(req[r].msg)
       IN  req' = [req EXCEPT ![r] =
                     IF Blocked(threats)
                     THEN Respond(req[r], 400, TRUE, RefusalText)
                     ELSE getPropertiesForTenant(req[r], req[r].tenant, "props")]
    /\ UNCHANGED <<now, tokenUsageByTenant, currentModelIndex, model,
                   propertiesByTenant, cobrokerageConfig, incidents, sanIn, sanOut,
                   searchIn, searchOut, tenantIn, tenantOut, notify, dateIn, dateOut, hierarchy, issued, adminReq>>

\* the list loadPropertiesFromGCS resolves to: the catalog object of the
\* tenant, or an empty list when the object is missing or the load failed
loadPropertiesFromGCS(tenantId, ok) == IF ok THEN SourceCatalog(tenantId) ELSE <<>>

\* the backing source has answered (an empty list when the load failed): the
\* entry of the tenant is replaced, stamped with the time the call began
LoadDone(r, ok) ==
    /\ req[r].pc = "loading"
    /\ propertiesByTenant' =
          MapSet(propertiesByTenant, req[r].src,
                 [properties |-> truncateDescriptions(loadPropertiesFromGCS(req[r].src, ok)),
                  lastUpdated |-> req[r].t0])
    /\ req' = [req EXCEPT ![r].pc = req[r].ret,
                           ![r].got = truncateDescriptions(
                                         loadPropertiesFromGCS(req[r].src, ok))]
    /\ UNCHANGED <<now, tokenUsageByTenant, currentModelIndex, model,
                   cobrokerageConfig, incidents, sanIn, sanOut,
                   searchIn, searchOut, tenantIn, tenantOut, notify, dateIn, dateOut, hierarchy, issued, adminReq>>

\* the handler going on to the feedback queries without a quota check
AfterProps_unchecked(r) ==
    /\ req[r].pc = "props"
    /\ req' = [req EXCEPT ![r].pc = "feedback", ![r].props = req[r].got]
    /\ UNCHANGED <<now, tokenUsageByTenant, currentModelIndex, model,
                   propertiesByTenant, cobrokerageConfig, incidents, sanIn, sanOut,
                   searchIn, searchOut, tenantIn, tenantOut, notify, dateIn, dateOut, hierarchy, issued, adminReq>>

\* the catalog is there: history and context are prepared and the quota is
\* checked; over quota the request ends with 429, otherwise the handler
\* awaits getRelevantFeedback and then the feedback query of selectBestModel
AfterProps(r) ==
    /\ req[r].pc = "props"
    /\ LET limitCheck == checkTokenLimit(req[r].tenant)
           rec == [Logged(req[r], "quota") EXCEPT !.props = req[r].got]
       IN  /\ tokenUsageByTenant' = initTenantUsage(req[r].tenant)
           /\ req' = [req EXCEPT ![r] =
                         IF limitCheck.exceeded
                         THEN Respond(rec, 429, FALSE, <<>>)
                         ELSE [rec EXCEPT !.pc = "feedback"]]
    /\ UNCHANGED <<now, currentModelIndex, model, propertiesByTenant,
                   cobrokerageConfig, incidents, sanIn, sanOut,
                   searchIn, searchOut, tenantIn, tenantOut, notify, dateIn, dateOut, hierarchy, issued, adminReq>>


(***************************************************************************)
(* Model selection and the retry loop.                                     *)
(***************************************************************************)
Last == NumModels - 1

\* /\b(compare|different|better|versus|vs|detail|explain|why|how)\b/i, or
\* more than 20 words
hasComplexQuery(message) == "compare" \in message

\* chat.sendMessage: one more call to the model, made with the chat's model
sendMessage(rec, pc) == [Logged(rec, "model") EXCEPT !.pc = pc, !.calls = @ + 1]

\* a chat always created with the first model of the list
startChat_first(rec, m) == [rec EXCEPT !.usedModel = MODEL_PRIORITY[0]]

\* generativeModel.startChat: the chat is created with the current `model`
startChat(rec, m) == [rec EXCEPT !.usedModel = m]

\* the message substrings that make a failed model call retryable
Retryable(e) == e \in {"RESOURCE_EXHAUSTED", "Not Found", "INVALID_ARGUMENT"}

\* the outer catch of the handler
Catch(rec, e) ==
    IF e = "RESOURCE_EXHAUSTED"
    THEN Respond([rec EXCEPT !.err = e], 503, TRUE, RetryText)
    ELSE Respond([rec EXCEPT !.err = e], 500, TRUE, ApologyText)

\* the feedback queries have answered: selectBestModel upgrades the shared
\* index when the tenant's negative feedback rate is above 40%, or picks the
\* second model for a complex query; then the first attempt of the retry loop
\* starts a chat and sends the message
AfterSelect(r, negative) ==
    /\ req[r].pc = "feedback"
    /\ LET upgrade == negative /\ currentModelIndex < Last
           idx == IF upgrade THEN currentModelIndex + 1 ELSE currentModelIndex
           selectedModel ==
               IF upgrade THEN MODEL_PRIORITY[idx]
               ELSE IF hasComplexQuery(req[r].msg) /\ currentModelIndex = 0
                    THEN MODEL_PRIORITY[1]
                    ELSE model
       IN  /\ currentModelIndex' = idx
           /\ model' = selectedModel
           /\ req' = [req EXCEPT ![r] = sendMessage(startChat(req[r], selectedModel), "model1")]
    /\ UNCHANGED <<now, tokenUsageByTenant, propertiesByTenant, cobrokerageConfig,
                   incidents, sanIn, sanOut,
                   searchIn, searchOut, tenantIn, tenantOut, notify, dateIn, dateOut, hierarchy, issued, adminReq>>

\* a fallback that never advances
\* a switch that starts again from the first model after the last
switchToFallbackModel_wrap(index) == IF index < Last THEN index + 1 ELSE 0

switchToFallbackModel_stuck(index) == index

\* switchToFallbackModel: the index after the call; it has moved exactly when
\* the call returned true
switchToFallbackModel(index) == IF index < Last THEN index + 1 ELSE index

\* the model call of the retry loop failed: a retryable error with a fallback
\* left starts the next attempt, anything else is thrown to the outer catch
ModelFail(r, e) ==
    /\ req[r].pc = "model1"
    /\ LET index == IF Retryable(e)
                    THEN switchToFallbackModel(currentModelIndex)
                    ELSE currentModelIndex
           switched == index # currentModelIndex
           rec == [req[r] EXCEPT !.retries = @ + 1, !.err = e]
       IN  /\ currentModelIndex' = index
           /\ model' = IF switched THEN MODEL_PRIORITY[index] ELSE model
           /\ req' = [req EXCEPT ![r] =
                        IF switched
                        THEN IF rec.retries < NumModels
                             THEN sendMessage(startChat(rec, MODEL_PRIORITY[index]), "model1")
                             ELSE Catch(rec, "TypeError")
                        ELSE Catch(req[r], e)]
    /\ UNCHANGED <<now, tokenUsageByTenant, propertiesByTenant, cobrokerageConfig,
                   incidents, sanIn, sanOut,
                   searchIn, searchOut, tenantIn, tenantOut, notify, dateIn, dateOut, hierarchy, issued, adminReq>>

(***************************************************************************)
(* After the first response.                                               *)
(***************************************************************************)
\* the message asks for listings (query verb followed by a property noun)
isPropertyQuery(message) == "cari rumah" \in message

\* the text states listing facts (price, id or location markers)
containsPropertyInfo(text) == \E i \in 1..Len(text) : text[i] = "prop"

SanitizationIncident(tenantId, warnings, functionCall) ==
    [tenantId |-> tenantId, type |-> "RESPONSE_SANITIZATION", warnings |-> warnings,
     functionCall |-> functionCall]

\* sanitize the text and return it; when something was redacted the record
\* is added to security_incidents first and the add awaited
SanitizeAndReply(rec, text, functionCall) ==
    LET s == sanitizeResponse(text)
        rec1 == [Logged(rec, "sanitize") EXCEPT !.hasText = TRUE, !.text = s.sanitized]
    IN  IF Len(s.warnings) > 0
        THEN [rec1 EXCEPT !.pc = "sanLog"]
        ELSE Respond(rec1, 200, TRUE, s.sanitized)

SanitizeLog(rec, text, functionCall) ==
    LET s == sanitizeResponse(text)
    IN  IF Len(s.warnings) > 0
        THEN Append(incidents, SanitizationIncident(rec.tenant, s.warnings, functionCall))
        ELSE incidents


\* a gate that lets every tenant through
CobrokerageEnabled_always(tenantId) == TRUE

\* the co-brokerage gate: a tenant without a configuration is enabled
CobrokerageEnabled(tenantId) ==
    IF tenantId \in DOMAIN cobrokerageConfig
    THEN cobrokerageConfig[tenantId].enabled
    ELSE TRUE

\* the priority loop of search_office_database: resolve the catalog of the
\* next level, or, with no level left, send the (empty) result to the model
CascadeNext(rec) ==
    IF rec.levels = <<>>
    THEN sendMessage([rec EXCEPT !.path = "search_office_database", !.results = <<>>,
                                 !.sent = <<>>, !.note = "co-brokerage"], "model2")
    ELSE getPropertiesForTenant(rec, Head(rec.levels).source, "level")

\* the function response sent back to the model on each path, by its name
FunctionResponseName(path) ==
    CASE path \in {"search_properties"} -> "search_properties"
      [] path \in {"search_office_database", "office_disabled"} -> "search_office_database"
      [] path \in {"collect_visitor_info"} -> "collect_visitor_info"
      [] path \in {"send_inquiry_email", "inquiry_sent", "inquiry_pending"} ->
            "send_inquiry_email"
      [] OTHER -> "none"

\* the last function call of the response
LastCall(functionCalls) == functionCalls[Len(functionCalls)]

\* functionCalls[0].functionCall
FirstCall(functionCalls) == functionCalls[1]

\* tool dispatch on the first function call of the response: the handler of
\* that tool runs
Dispatch(rec0, tool, argsOk) ==
    LET rec == [Logged(rec0, tool) EXCEPT !.tool = tool]
        found == search_properties(rec.props, properties, rec.args)
        hierarchyLevels == <<PriorityLevel(2, hierarchy[rec.tenant].office,
                                           "Office Group"),
                             PriorityLevel(3, hierarchy[rec.tenant].national,
                                           "Ray White Indonesia")>>
    IN  CASE tool = "search_properties" ->
                sendMessage([rec EXCEPT !.path = "search_properties",
                                        !.results = found.topResults,
                                        !.sent = [i \in 1..Len(found.topResults) |->
                                                     forModel(found.topResults[i])],
                                        !.note = found.fallbackMessage], "model2")
          [] tool = "search_office_database" ->
                IF ~CobrokerageEnabled(rec.tenant)
                THEN sendMessage([rec EXCEPT !.path = "office_disabled", !.results = <<>>,
                                             !.sent = <<>>, !.note = "not available"],
                                 "model2")
                ELSE IF rec.tenant \in DOMAIN hierarchy
                THEN CascadeNext([rec EXCEPT !.searchPriority = hierarchyLevels,
                                             !.levels = hierarchyLevels])
                ELSE [rec EXCEPT !.pc = "listing"]
          [] tool = "collect_visitor_info" ->
                [rec EXCEPT !.pc = "email", !.path = "collect_visitor_info"]
          [] tool = "send_inquiry_email" ->
                [rec EXCEPT !.pc = "email", !.path = "send_inquiry_email"]
          [] tool = "schedule_viewing" ->
                IF argsOk
                THEN getPropertiesForTenant(rec, rec.tenant, "sched")
                ELSE Respond([rec EXCEPT !.err = "Missing required field"], 500, FALSE, <<>>)

\* what a model call answers: usage metadata (or none), and no candidate, a
\* text, or function calls (the first with or without its required arguments)
Response(usage, kind, text, functionCalls, argsOk, args) ==
    [usage |-> usage, kind |-> kind, text |-> text, functionCalls |-> functionCalls,
     argsOk |-> argsOk, args |-> args]

SearchTools == {"search_properties", "search_office_database"}

\* the function calls that may follow the first one in a response
MoreCalls == {<<>>, <<"search_properties">>, <<"schedule_viewing">>}

Usages == {<<>>} \cup ((0..MaxTok) \X (0..MaxTok))

EmptyResponses(usages) == {Response(u, "empty", <<>>, <<>>, TRUE, NoCriteria) : u \in usages}

TextResponses(usages, texts) ==
    {Response(ut[1], "text", ut[2], <<>>, TRUE, NoCriteria) : ut \in usages \X texts}

ToolResponses(usages) ==
    {Response(ut[1], "tool", <<>>, <<ut[2]>> \o ut[3], TRUE, NoCriteria) :
        ut \in usages \X (Tools \ SearchTools) \X MoreCalls}
        \cup {Response(ut[1], "tool", <<>>, <<ut[2]>> \o ut[3], TRUE, ut[4]) :
                 ut \in usages \X SearchTools \X MoreCalls \X ChatCriteria}
        \cup {Response(u, "tool", <<>>, <<"schedule_viewing">>, FALSE, NoCriteria) :
                 u \in usages}

Responses(usages) ==
    EmptyResponses(usages) \cup TextResponses(usages, ModelTexts) \cup ToolResponses(usages)

\* the response as the handler goes on with it after the retry loop and the
\* hallucination guard
Continue(rec, resp) ==
    CASE resp.kind = "empty" -> Respond(rec, 200, TRUE, DifficultyText)
      [] resp.kind = "tool" -> Dispatch([rec EXCEPT !.fcalls = resp.functionCalls,
                                                     !.args = resp.args],
                                        FirstCall(resp.functionCalls), resp.argsOk)
      [] resp.kind = "text" -> SanitizeAndReply([rec EXCEPT !.mtext = resp.text],
                                                resp.text, "none")

ContinueLog(rec, resp) ==
    IF resp.kind = "text" THEN SanitizeLog(rec, resp.text, "none") ELSE incidents

\* the first model call succeeded: usage is recorded and the response is
\* looked at; a text that answers a property query with listing facts and no
\* function call is logged and then followed up
ModelReply(r, resp) ==
    /\ req[r].pc = "model1"
    /\ LET tracked == resp.usage # <<>>
           rec == IF tracked
                  THEN [Logged(req[r], "track") EXCEPT !.tracked = resp.usage,
                                                      !.trackedAt = now]
                  ELSE req[r]
           guard == /\ resp.kind = "text"
                    /\ isPropertyQuery(req[r].msg)
                    /\ containsPropertyInfo(resp.text)
       IN  /\ tokenUsageByTenant' =
                 IF tracked
                 THEN trackTokenUsage(req[r].tenant, resp.usage[1], resp.usage[2])
                 ELSE tokenUsageByTenant
           /\ IF guard
              THEN /\ req' = [req EXCEPT ![r] = [rec EXCEPT !.pc = "guardLog",
                                                          !.mtext = resp.text]]
                   /\ UNCHANGED incidents
              ELSE /\ req' = [req EXCEPT ![r] = Continue(rec, resp)]
                   /\ incidents' = ContinueLog(rec, resp)
    /\ UNCHANGED <<now, currentModelIndex, model, propertiesByTenant,
                   cobrokerageConfig, sanIn, sanOut,
                   searchIn, searchOut, tenantIn, tenantOut, notify, dateIn, dateOut, hierarchy, issued, adminReq>>

\* the hallucination warning is logged: the corrective follow-up is sent
GuardLogged(r) ==
    /\ req[r].pc = "guardLog"
    /\ req' = [req EXCEPT ![r] = sendMessage(Logged(req[r], "followup"), "guard")]
    /\ UNCHANGED <<now, tokenUsageByTenant, currentModelIndex, model,
                   propertiesByTenant, cobrokerageConfig, incidents, sanIn, sanOut,
                   searchIn, searchOut, tenantIn, tenantOut, notify, dateIn, dateOut, hierarchy, issued, adminReq>>

\* a guard that fires again on a follow-up answer that is text once more
GuardReply_again(r, kept, resp) ==
    /\ req[r].pc = "guard"
    /\ resp.usage = <<>>
    /\ req' = [req EXCEPT ![r].pc = IF resp.kind = "text" THEN "guardLog" ELSE "done"]
    /\ UNCHANGED <<now, tokenUsageByTenant, currentModelIndex, model,
                   propertiesByTenant, cobrokerageConfig, incidents, sanIn, sanOut,
                   searchIn, searchOut, tenantIn, tenantOut, notify, dateIn, dateOut, hierarchy, issued, adminReq>>

\* the follow-up has settled: its response replaces the first one, unless it
\* failed or could not be read, in which case the first text stands
GuardReply(r, kept, resp) ==
    /\ req[r].pc = "guard"
    /\ resp.usage = <<>>
    /\ LET answer == IF kept /\ resp.kind # "empty"
                     THEN resp
                     ELSE [resp EXCEPT !.kind = "text", !.text = req[r].mtext,
                                       !.functionCalls = <<>>]
       IN  /\ req' = [req EXCEPT ![r] = Continue(req[r], answer)]
           /\ incidents' = ContinueLog(req[r], answer)
    /\ UNCHANGED <<now, tokenUsageByTenant, currentModelIndex, model,
                   propertiesByTenant, cobrokerageConfig, sanIn, sanOut,
                   searchIn, searchOut, tenantIn, tenantOut, notify, dateIn, dateOut, hierarchy, issued, adminReq>>


chatUnchanged == <<now, tokenUsageByTenant, currentModelIndex, model,
                   propertiesByTenant, cobrokerageConfig, incidents, sanIn, sanOut,
                   searchIn, searchOut, tenantIn, tenantOut, notify, dateIn, dateOut, hierarchy, issued, adminReq>>

\* the tenants with a properties.json in the bucket, as getFiles lists them
BucketListing == <<"cernanlantang.raywhite.co.id", "menteng.raywhite.co.id",
                   "www.raywhite.co.id">>

\* no hierarchy entry: the bucket listing has answered (nothing when it
\* failed) and every other tenant becomes a level-2 source
Listed(r, ok) ==
    /\ req[r].pc = "listing"
    /\ LET isOther(t) == t # req[r].tenant
           allTenantIds == IF ok THEN SelectSeq(BucketListing, isOther) ELSE <<>>
           lv == [i \in 1..Len(allTenantIds) |->
                     PriorityLevel(2, allTenantIds[i], "Colleague")]
       IN  req' = [req EXCEPT ![r] = CascadeNext([req[r] EXCEPT !.searchPriority = lv,
                                                               !.levels = lv])]
    /\ UNCHANGED chatUnchanged

\* a loop that ends on the first level whose catalog is not empty
AfterLevel_catalog(r) ==
    /\ req[r].pc = "level"
    /\ LET priorityLevel == Head(req[r].levels)
           filtered == levelFilter(markedProps(req[r].got, priorityLevel), req[r].args)
       IN  req' = [req EXCEPT ![r] =
                     IF req[r].got # <<>>
                     THEN sendMessage([req[r] EXCEPT !.results = officeTopResults(filtered),
                                                     !.sent = officeTopResults(filtered),
                                                     !.searchedLevel = priorityLevel,
                                                     !.note = "found",
                                                     !.path = "search_office_database"],
                                      "model2")
                     ELSE CascadeNext([req[r] EXCEPT !.levels = Tail(@)])]
    /\ UNCHANGED chatUnchanged

\* a level's catalog is there: it is marked and filtered, and a non-empty
\* filtered result ends the loop
AfterLevel(r) ==
    /\ req[r].pc = "level"
    /\ LET priorityLevel == Head(req[r].levels)
           filtered == levelFilter(markedProps(req[r].got, priorityLevel), req[r].args)
       IN  req' = [req EXCEPT ![r] =
                     IF filtered # <<>>
                     THEN sendMessage([req[r] EXCEPT !.results = officeTopResults(filtered),
                                                     !.sent = officeTopResults(filtered),
                                                     !.searchedLevel = priorityLevel,
                                                     !.note = "found",
                                                     !.path = "search_office_database"],
                                      "model2")
                     ELSE CascadeNext([req[r] EXCEPT !.levels = Tail(@)])]
    /\ UNCHANGED chatUnchanged

\* schedule_viewing has the tenant's catalog: the visitor confirmation is sent
AfterSched(r) ==
    /\ req[r].pc = "sched"
    /\ req' = [req EXCEPT ![r].pc = "email", ![r].path = "visitor_confirmation"]
    /\ UNCHANGED chatUnchanged

\* a failed send that ends the turn with an error
EmailDone_abort(r, ok) ==
    /\ req[r].pc = "email"
    /\ req' = [req EXCEPT ![r] =
                  IF ok THEN [req[r] EXCEPT !.path = "agent_lead"]
                  ELSE Respond(Logged(req[r], "email failed"), 500, FALSE, <<>>)]
    /\ UNCHANGED <<now, tokenUsageByTenant, currentModelIndex, model,
                   propertiesByTenant, cobrokerageConfig, incidents, sanIn, sanOut,
                   searchIn, searchOut, tenantIn, tenantOut, notify, dateIn, dateOut, hierarchy, issued, adminReq>>

\* sendEmail has settled; a failure is caught where the email was sent
EmailDone(r, ok) ==
    /\ req[r].pc = "email"
    /\ LET rec == Logged(req[r], IF ok THEN "email" ELSE "email failed")
       IN  req' = [req EXCEPT ![r] =
             CASE rec.path = "collect_visitor_info" -> sendMessage(rec, "model2")
               [] rec.path = "send_inquiry_email" ->
                     sendMessage([rec EXCEPT !.path = IF ok THEN "inquiry_sent"
                                                           ELSE "inquiry_pending"], "model2")
               [] rec.path = "visitor_confirmation" ->
                     [rec EXCEPT !.pc = "email", !.path = "agent_lead"]
               [] rec.path = "agent_lead" -> Respond(rec, 200, TRUE, ConfirmationText)]
    /\ UNCHANGED chatUnchanged

\* the first part of a response that has no text (a function call): its
\* .text is undefined
NoText == <<>>

\* the text of the first part of the second response; search_properties
\* appends its fallback message with +=, which turns a missing text into
\* the string "undefined"
textResponse(rec) ==
    IF rec.path = "search_properties" /\ rec.note # ""
    THEN (IF rec.mtext = NoText THEN <<"undefined">> ELSE rec.mtext) \o <<rec.note>>
    ELSE rec.mtext

\* the text has the given token
Mentions(responseText, token) ==
    \E i \in 1..Len(responseText) : responseText[i] = token

\* the checks of the text against the listings shown.  "found2" is the
\* phrase "found 2 properties" and "taman" a restricted feature word; the
\* descriptions of the catalogs name no feature, and the texts mention no
\* price and no availability, so that the price and availability checks find
\* nothing.
validateResponse(responseText, actualProperties) ==
    LET count == IF Mentions(responseText, "found2") /\ Len(actualProperties) # 2
                 THEN <<"COUNT_MISMATCH">> ELSE <<>>
        feature == IF Mentions(responseText, "taman")
                   THEN <<"POSSIBLE_HALLUCINATION">> ELSE <<>>
    IN  count \o feature

\* the texts of the second response: those of the first, one that states a
\* count of listings and one that names a feature
SecondTexts == ModelTexts \cup {<<"found2">>, <<"taman">>}

\* the model has answered the function response: the two searches validate
\* and sanitize the text of the first part (which fails on a part without
\* text), the other tools return it as it is.  With validation warnings the
\* record is added to hallucination_warnings first and the add awaited.
Model2Reply(r, text) ==
    /\ req[r].pc = "model2"
    /\ LET rec == [req[r] EXCEPT !.mtext = text]
           sanitizes == rec.path \in {"search_properties", "search_office_database"}
           warns == /\ sanitizes
                    /\ textResponse(rec) # NoText
                    /\ Len(validateResponse(textResponse(rec), rec.results)) > 0
       IN  /\ req' = [req EXCEPT ![r] =
                        IF sanitizes
                        THEN IF textResponse(rec) = NoText
                             THEN Catch(rec, "TypeError")
                             ELSE IF warns
                             THEN [rec EXCEPT !.pc = "valLog",
                                              !.validation =
                                                 validateResponse(textResponse(rec),
                                                                  rec.results)]
                             ELSE SanitizeAndReply(rec, textResponse(rec), rec.path)
                        ELSE Respond(rec, 200, text # NoText, text)]
           /\ incidents' = IF sanitizes /\ textResponse(rec) # NoText /\ ~warns
                           THEN SanitizeLog(rec, textResponse(rec), rec.path)
                           ELSE incidents
    /\ UNCHANGED <<now, tokenUsageByTenant, currentModelIndex, model,
                   propertiesByTenant, cobrokerageConfig, sanIn, sanOut,
                   searchIn, searchOut, tenantIn, tenantOut, notify, dateIn, dateOut, hierarchy, issued, adminReq>>

\* a handler in which a failed add of the warnings ends the request
ValLogged_abort(r, ok) ==
    /\ req[r].pc = "valLog"
    /\ LET rec == Logged(req[r], IF ok THEN "hallucination_warnings"
                                      ELSE "warning log failed")
       IN  /\ req' = [req EXCEPT ![r] =
                        IF ok THEN SanitizeAndReply(rec, textResponse(rec), rec.path)
                        ELSE Catch(rec, "Error")]
           /\ incidents' = IF ok THEN SanitizeLog(rec, textResponse(rec), rec.path)
                           ELSE incidents
    /\ UNCHANGED <<now, tokenUsageByTenant, currentModelIndex, model,
                   propertiesByTenant, cobrokerageConfig, sanIn, sanOut,
                   searchIn, searchOut, tenantIn, tenantOut, notify, dateIn, dateOut, hierarchy, issued, adminReq>>

\* the add to hallucination_warnings has settled; a failure is caught and
\* printed, and the handler goes on to sanitize the text
ValLogged(r, ok) ==
    /\ req[r].pc = "valLog"
    /\ LET rec == Logged(req[r], IF ok THEN "hallucination_warnings"
                                      ELSE "warning log failed")
       IN  /\ req' = [req EXCEPT ![r] =
                        SanitizeAndReply(rec, textResponse(rec), rec.path)]
           /\ incidents' = SanitizeLog(rec, textResponse(rec), rec.path)
    /\ UNCHANGED <<now, tokenUsageByTenant, currentModelIndex, model,
                   propertiesByTenant, cobrokerageConfig, sanIn, sanOut,
                   searchIn, searchOut, tenantIn, tenantOut, notify, dateIn, dateOut, hierarchy, issued, adminReq>>

\* the second model call failed: send_inquiry_email catches it once and sends
\* the "pending" function response, everything else reaches the outer catch
Model2Fail(r, e) ==
    /\ req[r].pc = "model2"
    /\ req' = [req EXCEPT ![r] =
                  IF req[r].path = "inquiry_sent"
                  THEN sendMessage([req[r] EXCEPT !.path = "inquiry_pending"], "model2")
                  ELSE Catch(req[r], e)]
    /\ UNCHANGED chatUnchanged

\* the sanitization record is logged: the sanitized text is returned
SanLogged(r) ==
    /\ req[r].pc = "sanLog"
    /\ req' = [req EXCEPT ![r] = Respond(req[r], 200, TRUE, req[r].text)]
    /\ UNCHANGED chatUnchanged

(***************************************************************************)
(* The environment: time and the admin endpoints.                          *)
(***************************************************************************)
Tick ==
    /\ now < MaxTime
    /\ now' = now + 1
    /\ UNCHANGED <<tokenUsageByTenant, currentModelIndex, model, propertiesByTenant,
                   cobrokerageConfig, incidents, req, sanIn, sanOut,
                   searchIn, searchOut, tenantIn, tenantOut, notify, dateIn, dateOut, hierarchy, issued, adminReq>>

\* an endpoint that replaces the tenant's record by a new one of the plan
SetPlan_fresh(tenantId, plan) ==
    /\ tokenUsageByTenant' =
          MapSet(tokenUsageByTenant, tenantId, [NewUsage EXCEPT !.plan = plan])
    /\ tokenUsageByTenant' # tokenUsageByTenant
    /\ UNCHANGED <<now, currentModelIndex, model, propertiesByTenant,
                   cobrokerageConfig, incidents, req, sanIn, sanOut,
                   searchIn, searchOut, tenantIn, tenantOut, notify, dateIn, dateOut, hierarchy, issued, adminReq>>

\* POST /admin/tenant/:tenantId/plan
SetPlan(tenantId, plan) ==
    /\ tokenUsageByTenant' =
          [initTenantUsage(tenantId) EXCEPT ![tenantId].plan = plan]
    /\ tokenUsageByTenant' # tokenUsageByTenant
    /\ UNCHANGED <<now, currentModelIndex, model, propertiesByTenant,
                   cobrokerageConfig, incidents, req, sanIn, sanOut,
                   searchIn, searchOut, tenantIn, tenantOut, notify, dateIn, dateOut, hierarchy, issued, adminReq>>

\* POST /admin/cobrokerage/:tenantId
SetCobrokerage(tenantId, enabled) ==
    /\ cobrokerageConfig' = MapSet(cobrokerageConfig, tenantId, [enabled |-> enabled])
    /\ cobrokerageConfig' # cobrokerageConfig
    /\ UNCHANGED <<now, tokenUsageByTenant, currentModelIndex, model,
                   propertiesByTenant, incidents, req, sanIn, sanOut,
                   searchIn, searchOut, tenantIn, tenantOut, notify, dateIn, dateOut, hierarchy, issued, adminReq>>

\* one call of sanitizeResponse
Sanitize ==
    /\ sanOut' = sanitizeResponse(sanIn)
    /\ UNCHANGED <<now, tokenUsageByTenant, currentModelIndex, model,
                   propertiesByTenant, cobrokerageConfig, incidents, req, sanIn,
                   searchIn, searchOut, tenantIn, tenantOut, notify, dateIn, dateOut, hierarchy, issued, adminReq>>


(***************************************************************************)
(* Specifications.                                                         *)
(***************************************************************************)
\* the steps of a request up to the first response
FirstSteps(r) ==
    \/ AfterIncident(r)
    \/ \E ok \in BOOLEAN : LoadDone(r, ok)
    \/ AfterProps(r)
    \/ \E negative \in BOOLEAN : AfterSelect(r, negative)

\* the steps after a first response that a function call or the
\* hallucination guard lead to
LaterSteps(r) ==
    \/ GuardLogged(r)
    \/ \E kept \in BOOLEAN, resp \in Responses({<<>>}) : GuardReply(r, kept, resp)
    \/ \E ok \in BOOLEAN : Listed(r, ok)
    \/ AfterLevel(r)
    \/ AfterSched(r)
    \/ \E ok \in BOOLEAN : EmailDone(r, ok)
    \/ \E text \in SecondTexts \cup {NoText} : Model2Reply(r, text)
    \/ \E ok \in BOOLEAN : ValLogged(r, ok)
    \/ \E e \in ModelErrors : Model2Fail(r, e)
    \/ SanLogged(r)

\* the tenants whose widgets send chat requests
ChatTenants == {"cernanlantang.raywhite.co.id", "menteng.raywhite.co.id"}

Untouched == \A q \in Reqs : req[q].pc = "idle"

\* One chat request, with every message, response and tool, after the admin
\* has set the co-brokerage configuration; every model call of the retry
\* loop succeeds.
Next ==
    \/ \E t \in ChatTenants, m \in Messages : Receive("r1", t, m)
    \/ FirstSteps("r1")
    \/ \E resp \in Responses({<<>>, <<MaxTok, MaxTok>>}) : ModelReply("r1", resp)
    \/ LaterSteps("r1")
    \/ \E enabled \in BOOLEAN :
          Untouched /\ SetCobrokerage("cernanlantang.raywhite.co.id", enabled)

Spec == Init /\ [][Next]_vars


\* Concurrent chat requests of one tenant that the model answers with plain
\* text, while time passes and the admin changes the tenant's plan.
QuotaTenant == "cernanlantang.raywhite.co.id"

NextQuota ==
    \/ Tick
    \/ \E r \in Reqs : Receive(r, QuotaTenant, {"cari rumah"})
    \/ \E r \in Reqs, ok \in BOOLEAN : LoadDone(r, ok)
    \/ \E r \in Reqs : AfterProps(r)
    \/ \E r \in Reqs : AfterSelect(r, FALSE)
    \/ \E r \in Reqs, resp \in TextResponses(Usages, {<<"word">>}) : ModelReply(r, resp)
    \/ \E plan \in Plans : SetPlan(QuotaTenant, plan)

SpecQuota == Init /\ [][NextQuota]_vars

\* Concurrent chat requests, of any tenant, whose model calls fail or are
\* answered with plain text.
NextFallback ==
    \/ \E r \in Reqs, t \in ChatTenants, m \in {{"cari rumah"}, {"compare"}} :
          Receive(r, t, m)
    \/ \E r \in Reqs : LoadDone(r, TRUE)
    \/ \E r \in Reqs : AfterProps(r)
    \/ \E r \in Reqs, negative \in BOOLEAN : AfterSelect(r, negative)
    \/ \E r \in Reqs, e \in ModelErrors : ModelFail(r, e)
    \/ \E r \in Reqs, resp \in TextResponses({<<>>}, {<<"word">>}) : ModelReply(r, resp)

SpecFallback == Init /\ [][NextFallback]_vars


\* Concurrent chat requests of the two tenants that the model answers with
\* a search_properties call: a location only the broadened search matches,
\* and house searches that find no house.
IsolationCriteria ==
    {Criteria({"area", "menteng"}, "", "", "", 0, 0),
     Criteria({"kemang"}, "", "", "rumah", 0, 0),
     Criteria({"bali"}, "", "", "rumah", 0, 0)}

NextIsolation ==
    \/ \E r \in Reqs, t \in ChatTenants : Receive(r, t, {"cari rumah"})
    \/ \E r \in Reqs, ok \in BOOLEAN : LoadDone(r, ok)
    \/ \E r \in Reqs : AfterProps(r)
    \/ \E r \in Reqs : AfterSelect(r, FALSE)
    \/ \E r \in Reqs, c \in IsolationCriteria :
          ModelReply(r, Response(<<>>, "tool", <<>>, <<"search_properties">>, TRUE, c))
    \/ \E r \in Reqs : Model2Reply(r, <<"word">>)

SpecIsolation == Init /\ [][NextIsolation]_vars

\* the bodies of the requests of SpecArrival: no message, an empty one, a
\* plain one, one with a HIGH and one with a MEDIUM threat
ArrivalMessages ==
    {NoMessage, {}, {"cari rumah"}, {"password"}, {"http://99.co", "cari rumah"}}

\* Concurrent chat requests from their arrival to the quota check.
NextArrival ==
    \/ \E r \in Reqs, t \in ChatTenants, m \in ArrivalMessages : Receive(r, t, m)
    \/ \E r \in Reqs : AfterIncident(r)
    \/ \E r \in Reqs, ok \in BOOLEAN : LoadDone(r, ok)
    \/ \E r \in Reqs : AfterProps(r)

SpecArrival == Init /\ [][NextArrival]_vars

\* sanitizeResponse on every text of at most MaxLen tokens
InitSan ==
    /\ Init!1 /\ Init!2 /\ Init!3 /\ Init!4 /\ Init!5 /\ Init!6 /\ Init!7 /\ Init!8
    /\ sanIn \in Texts
    /\ sanOut = [sanitized |-> <<>>, warnings |-> <<>>]
    /\ Init!11 /\ Init!12 /\ Init!13 /\ Init!14 /\ Init!15 /\ Init!16 /\ Init!17
    /\ Init!18 /\ Init!19 /\ Init!20

SpecSan == InitSan /\ [][Sanitize]_vars

\* the listings the searched catalogs are made of: a house, an apartment
\* named in its location, an apartment named in its title only, a shophouse
\* with "Contact for price", a house without a price, one whose price text
\* has no digits and one dot, and one priced in "M"
ListingPool ==
    {Listing("h1", {"rumah", "kemang"}, {}, "sale", "Rp. 2 Milyar", 3),
     Listing("a1", {"apartemen", "kemang"}, {}, "sale", "Rp. 1 Milyar", 2),
     Listing("a2", {"kemang"}, {"apartemen"}, "sale", "Rp. 1 Milyar", 1),
     Listing("k1", {"ruko", "kemang"}, {}, "sale", "Contact for price", 0),
     Listing("h2", {"rumah", "bali"}, {}, "rent", "", 2),
     Listing("h3", {"rumah", "kemang"}, {}, "sale", "Call us.", 2),
     Listing("h4", {"rumah", "kemang"}, {}, "sale", "Rp. 3000 M nego", 4)}

Catalogs == UNION {[1..n -> ListingPool] : n \in 0..MaxCatalog}

SearchCriteria ==
    {Criteria(a[1], "", "", a[2], a[3], 0) :
        a \in {{}, {"kemang"}, {"area", "bali"}} \X {"", "rumah", "apartemen"} \X {0, 1}}

\* search_properties on every catalog of at most MaxCatalog listings, in
\* both modes
InitSearch ==
    /\ Init!1 /\ Init!2 /\ Init!3 /\ Init!4 /\ Init!5 /\ Init!6 /\ Init!7 /\ Init!8
    /\ Init!9 /\ Init!10
    /\ searchIn \in [multiTenant : BOOLEAN, catalog : Catalogs, args : SearchCriteria]
    /\ Init!12 /\ Init!13 /\ Init!14 /\ Init!15 /\ Init!16 /\ Init!17
    /\ Init!18 /\ Init!19 /\ Init!20

\* the level a searched catalog is taken as by the office search
SearchLevel == PriorityLevel(2, "menteng.raywhite.co.id", "Office Group")

\* one call of each search on the catalog: search_properties, and the
\* per-level steps of search_office_database.  getPropertiesForTenant
\* answers the global array in single-tenant mode; in multi-tenant mode the
\* global array is never assigned
Search ==
    /\ ~searchOut.done
    /\ LET tenantProperties == searchIn.catalog
           globalProperties == IF searchIn.multiTenant THEN properties
                               ELSE searchIn.catalog
           found == search_properties(tenantProperties, globalProperties, searchIn.args)
           filtered == levelFilter(markedProps(searchIn.catalog, SearchLevel),
                                   searchIn.args)
       IN  searchOut' = [done |-> TRUE, topResults |-> found.topResults,
                         fallbackMessage |-> found.fallbackMessage,
                         attempted |-> found.attempted,
                         filtered |-> filtered,
                         officeResults |-> officeTopResults(filtered)]
    /\ UNCHANGED <<now, tokenUsageByTenant, currentModelIndex, model, propertiesByTenant,
                   cobrokerageConfig, incidents, req, sanIn, sanOut, searchIn,
                   tenantIn, tenantOut, notify, dateIn, dateOut, hierarchy, issued, adminReq>>

SpecSearch == InitSearch /\ [][Search]_vars

\* catalogs long enough for the display caps: two houses and an apartment
\* in Kemang, in every order
CapPool ==
    {Listing("h1", {"rumah", "kemang"}, {}, "sale", "Rp. 2 Milyar", 3),
     Listing("h5", {"rumah", "kemang"}, {}, "sale", "Rp. 1 Milyar", 2),
     Listing("a1", {"apartemen", "kemang"}, {}, "sale", "Rp. 1 Milyar", 2)}

CapCatalogs == UNION {[1..n -> CapPool] : n \in 0..MaxCapCatalog}

\* criteria that end on the primary path, on the broadened search and on
\* the category fallback
CapCriteria ==
    {NoCriteria,
     Criteria({"kemang"}, "", "", "rumah", 0, 0),
     Criteria({"area", "kemang"}, "", "", "rumah", 0, 0),
     Criteria({"kemang"}, "", "", "apartemen", 1, 0)}

InitCap ==
    /\ Init!1 /\ Init!2 /\ Init!3 /\ Init!4 /\ Init!5 /\ Init!6 /\ Init!7 /\ Init!8
    /\ Init!9 /\ Init!10
    /\ searchIn \in [multiTenant : BOOLEAN, catalog : CapCatalogs, args : CapCriteria]
    /\ Init!12 /\ Init!13 /\ Init!14 /\ Init!15 /\ Init!16 /\ Init!17
    /\ Init!18 /\ Init!19 /\ Init!20

(***************************************************************************)
(* The catalog store: getPropertiesForTenant called by a request handler,  *)
(* time and time again, and POST /gcs-notify running beside it, with       *)
(* PROPERTIES_STORE = 'gcs' in multi-tenant mode.                          *)
(***************************************************************************)
\* a call of getPropertiesForTenant by a request handler
Resolve(r, tenantId) ==
    /\ req[r].pc = "idle"
    /\ req' = [req EXCEPT ![r] =
                  getPropertiesForTenant([IdleReq EXCEPT !.tenant = tenantId],
                                         tenantId, "got")]
    /\ UNCHANGED <<now, tokenUsageByTenant, currentModelIndex, model,
                   propertiesByTenant, cobrokerageConfig, incidents, sanIn, sanOut,
                   searchIn, searchOut, tenantIn, tenantOut, notify, dateIn, dateOut, hierarchy, issued, adminReq>>

\* the handler has the list and ends
Return(r) ==
    /\ req[r].pc = "got"
    /\ req' = [req EXCEPT ![r] = IdleReq]
    /\ UNCHANGED <<now, tokenUsageByTenant, currentModelIndex, model,
                   propertiesByTenant, cobrokerageConfig, incidents, sanIn, sanOut,
                   searchIn, searchOut, tenantIn, tenantOut, notify, dateIn, dateOut, hierarchy, issued, adminReq>>

\* the name of a bucket object: its directory and its file name
ObjectName(dir, file) == [dir |-> dir, file |-> file]

\* the objects notifications are about: the catalog objects of two tenants,
\* another file of a tenant, and the catalog object of the default tenant
ObjectNames ==
    {ObjectName("cernanlantang.raywhite.co.id", "properties.json"),
     ObjectName("menteng.raywhite.co.id", "properties.json"),
     ObjectName("menteng.raywhite.co.id", "feedback.json"),
     ObjectName("", "properties.json")}

\* data.name.match(/^([^/]+)\/properties\.json$/), then PROPERTIES_GCS_PATH
IsCatalogObject(name) == name.file = "properties.json"

NotifiedTenant(name) == IF name.dir # "" THEN name.dir ELSE DEFAULT_TENANT

\* POST /gcs-notify with a message about an object, up to the reload: a
\* notification for another file is answered OK at once
Notify(name) ==
    /\ notify.pc \in {"idle", "done"}
    /\ notify' = IF IsCatalogObject(name)
                 THEN [notify EXCEPT !.pc = "loading", !.src = NotifiedTenant(name),
                                     !.status = 0]
                 ELSE [notify EXCEPT !.pc = "done", !.src = "", !.status = 200]
    /\ UNCHANGED <<now, tokenUsageByTenant, currentModelIndex, model,
                   propertiesByTenant, cobrokerageConfig, incidents, req, sanIn, sanOut,
                   searchIn, searchOut, tenantIn, tenantOut, dateIn, dateOut, hierarchy, issued, adminReq>>

\* the reload has settled: the entry of the tenant is set to the reloaded
\* list, stamped with the time of the set
NotifyDone(ok) ==
    /\ notify.pc = "loading"
    /\ propertiesByTenant' =
          MapSet(propertiesByTenant, notify.src,
                 [properties |-> loadPropertiesFromGCS(notify.src, ok),
                  lastUpdated |-> now])
    /\ notify' = [notify EXCEPT !.pc = "done", !.status = 200,
                                !.installed = MapSet(@, notify.src,
                                                     propertiesByTenant'[notify.src])]
    /\ UNCHANGED <<now, tokenUsageByTenant, currentModelIndex, model,
                   cobrokerageConfig, incidents, req, sanIn, sanOut,
                   searchIn, searchOut, tenantIn, tenantOut, dateIn, dateOut, hierarchy, issued, adminReq>>

\* the clock of the store, up to MaxStoreTime
StoreTick == now < MaxStoreTime /\ Tick

NextStore ==
    \/ StoreTick
    \/ \E t \in ChatTenants : Resolve("r1", t)
    \/ \E ok \in BOOLEAN : LoadDone("r1", ok)
    \/ Return("r1")
    \/ \E name \in ObjectNames : Notify(name)
    \/ \E ok \in BOOLEAN : NotifyDone(ok)

SpecStore == Init /\ [][NextStore]_vars

\* getTenantId on every combination of header, query parameter and body
\* field, in both modes; "" is an absent value
TenantValues == {"", "a.example", "b.example", "c.example"}

InitTenant ==
    /\ Init!1 /\ Init!2 /\ Init!3 /\ Init!4 /\ Init!5 /\ Init!6 /\ Init!7 /\ Init!8
    /\ Init!9 /\ Init!10 /\ Init!11 /\ Init!12
    /\ tenantIn \in [multiTenant : BOOLEAN, header : TenantValues,
                      query : TenantValues, body : TenantValues]
    /\ Init!14 /\ Init!15 /\ Init!16 /\ Init!17
    /\ Init!18 /\ Init!19 /\ Init!20

\* one call of getTenantId
ResolveTenant ==
    /\ ~tenantOut.done
    /\ tenantOut' = [done |-> TRUE,
                     tenantId |-> getTenantId(tenantIn.multiTenant, tenantIn.header,
                                              tenantIn.query, tenantIn.body)]
    /\ UNCHANGED <<now, tokenUsageByTenant, currentModelIndex, model, propertiesByTenant,
                   cobrokerageConfig, incidents, req, sanIn, sanOut, searchIn, searchOut,
                   tenantIn, notify, dateIn, dateOut, hierarchy, issued, adminReq>>

SpecTenant == InitTenant /\ [][ResolveTenant]_vars

(***************************************************************************)
(* validateAndCorrectDate.  A date is the number of its day; day 0 is a    *)
(* Sunday.  `today` is the midnight that starts the local day; the zone of *)
(* the process is at ("utc"), ahead of or behind UTC.  The conversation is *)
(* the set of the date phrases it holds.  The date of the model is a       *)
(* record: the day its YYYY-MM-DD string names, or not valid when new      *)
(* Date() cannot read it.                                                  *)
(***************************************************************************)
DatePhrases == {"tomorrow", "day after tomorrow", "lusa", "next week", "today",
                "this weekend"}

validateAndCorrectDate(preferredDate, context, today, zone) ==
    LET \* new Date(y, m, d).toISOString().split('T')[0] of a local
        \* midnight: the UTC date of that instant
        localMidnightISO(day) == IF zone = "ahead" THEN day - 1 ELSE day
        \* isNaN(parsedDate.getTime()) || parsedDate < today, where the
        \* parsed date is a UTC midnight and today a local one
        isInvalidDate ==
            \/ ~preferredDate.valid
            \/ IF zone = "behind" THEN preferredDate.day <= today
               ELSE preferredDate.day < today
        \* /\b(...)\b/.test(contextLower), for the terms of the alternation
        ContextHas(terms) ==
            \E phrase \in context :
                \/ phrase \in terms
                \/ phrase = "day after tomorrow" /\ "tomorrow" \in terms
        \* (6 - today.getDay() + 7) % 7 || 7
        daysUntilSaturday == IF (6 - (today % 7) + 7) % 7 = 0 THEN 7
                             ELSE (6 - (today % 7) + 7) % 7
    IN  CASE ContextHas({"tomorrow"}) -> localMidnightISO(today + 1)
          [] ContextHas({"day after tomorrow", "lusa"}) -> localMidnightISO(today + 2)
          [] ContextHas({"next week"}) -> localMidnightISO(today + 7)
          [] ContextHas({"today"}) -> localMidnightISO(today)
          [] ContextHas({"this weekend"}) -> localMidnightISO(today + daysUntilSaturday)
          [] isInvalidDate -> localMidnightISO(today + 1)
          [] OTHER -> preferredDate.day

InitDate ==
    /\ Init!1 /\ Init!2 /\ Init!3 /\ Init!4 /\ Init!5 /\ Init!6 /\ Init!7 /\ Init!8
    /\ Init!9 /\ Init!10 /\ Init!11 /\ Init!12 /\ Init!13 /\ Init!14 /\ Init!15
    /\ dateIn \in [today : FirstDay..(FirstDay + MaxDays - 1),
                   zone : {"utc", "ahead", "behind"},
                   preferredDate :
                      {[valid |-> FALSE, day |-> 0]} \cup
                      {[valid |-> TRUE, day |-> d] :
                          d \in (FirstDay - 2)..(FirstDay + MaxDays + 1)},
                   context : {c \in SUBSET DatePhrases : Cardinality(c) <= MaxDatePhrases}]
    /\ Init!17 /\ Init!18 /\ Init!19 /\ Init!20

\* one call of validateAndCorrectDate
CorrectDate ==
    /\ ~dateOut.done
    /\ dateOut' = [done |-> TRUE,
                   date |-> validateAndCorrectDate(dateIn.preferredDate, dateIn.context,
                                                   dateIn.today, dateIn.zone)]
    /\ UNCHANGED <<now, tokenUsageByTenant, currentModelIndex, model, propertiesByTenant,
                   cobrokerageConfig, incidents, req, sanIn, sanOut, searchIn, searchOut,
                   tenantIn, tenantOut, notify, dateIn, hierarchy, issued, adminReq>>

SpecDate == InitDate /\ [][CorrectDate]_vars

(***************************************************************************)
(* The admin endpoints that change the hierarchy and the co-brokerage      *)
(* configuration.  A header that is not sent is the empty string.          *)
(***************************************************************************)
\* process.env.ADMIN_KEY
ADMIN_KEY == "admin-key"

\* the test at the head of the three endpoints: neither header -> 403, an
\* admin key that is not the configured one -> 403
Authorized(adminKey, sessionToken) ==
    /\ ~(adminKey = "" /\ sessionToken = "")
    /\ ~(adminKey # "" /\ adminKey # ADMIN_KEY)

\* POST /admin/login: with the admin's credentials the answer carries a
\* session token, which the server does not keep
AdminLogin(valid) ==
    /\ issued' = IF valid THEN issued \cup {"token"} ELSE issued
    /\ adminReq' = [endpoint |-> "login", adminKey |-> "", sessionToken |-> "",
                    status |-> IF valid THEN 200 ELSE 401]
    /\ UNCHANGED <<now, tokenUsageByTenant, currentModelIndex, model, propertiesByTenant,
                   cobrokerageConfig, incidents, req, sanIn, sanOut, searchIn, searchOut,
                   tenantIn, tenantOut, notify, dateIn, dateOut, hierarchy>>

\* POST /admin/tenant/register
PostRegister(adminKey, sessionToken, tenantId, websiteUrl, officeId) ==
    LET status == IF ~Authorized(adminKey, sessionToken) THEN 403
                  ELSE IF tenantId = "" \/ websiteUrl = "" THEN 400 ELSE 200
    IN  /\ adminReq' = [endpoint |-> "register", adminKey |-> adminKey,
                        sessionToken |-> sessionToken, status |-> status]
        /\ hierarchy' = IF status = 200
                        THEN MapSet(hierarchy, tenantId,
                                    [office |-> officeId, national |-> "www.raywhite.co.id"])
                        ELSE hierarchy
        /\ UNCHANGED <<now, tokenUsageByTenant, currentModelIndex, model,
                       propertiesByTenant, cobrokerageConfig, incidents, req, sanIn,
                       sanOut, searchIn, searchOut, tenantIn, tenantOut, notify, dateIn,
                       dateOut, issued>>

\* POST /admin/cobrokerage/:tenantId
PostCobrokerage(adminKey, sessionToken, tenantId, enabled) ==
    LET status == IF ~Authorized(adminKey, sessionToken) THEN 403 ELSE 200
    IN  /\ adminReq' = [endpoint |-> "cobrokerage", adminKey |-> adminKey,
                        sessionToken |-> sessionToken, status |-> status]
        /\ cobrokerageConfig' = IF status = 200
                                THEN MapSet(cobrokerageConfig, tenantId,
                                            [enabled |-> enabled])
                                ELSE cobrokerageConfig
        /\ UNCHANGED <<now, tokenUsageByTenant, currentModelIndex, model,
                       propertiesByTenant, incidents, req, sanIn, sanOut, searchIn,
                       searchOut, tenantIn, tenantOut, notify, dateIn, dateOut,
                       hierarchy, issued>>

\* POST /admin/hierarchy/:tenantId
PostHierarchy(adminKey, sessionToken, tenantId, office) ==
    LET status == IF ~Authorized(adminKey, sessionToken) THEN 403 ELSE 200
    IN  /\ adminReq' = [endpoint |-> "hierarchy", adminKey |-> adminKey,
                        sessionToken |-> sessionToken, status |-> status]
        /\ hierarchy' = IF status = 200
                        THEN MapSet(hierarchy, tenantId,
                                    [office |-> office, national |-> "www.raywhite.co.id"])
                        ELSE hierarchy
        /\ UNCHANGED <<now, tokenUsageByTenant, currentModelIndex, model,
                       propertiesByTenant, cobrokerageConfig, incidents, req, sanIn,
                       sanOut, searchIn, searchOut, tenantIn, tenantOut, notify, dateIn,
                       dateOut, issued>>

\* Admin requests with every combination of a missing, right or wrong admin
\* key and a missing, issued or made-up session token.
NextAdmin ==
    \/ \E valid \in BOOLEAN : AdminLogin(valid)
    \/ \E k \in {"", ADMIN_KEY, "guess"}, s \in {"", "token", "forged"}, t \in ChatTenants :
          \/ \E url \in {"", "https://site"}, o \in {"", "menteng.raywhite.co.id"} :
                PostRegister(k, s, t, url, o)
          \/ \E enabled \in BOOLEAN : PostCobrokerage(k, s, t, enabled)
          \/ \E o \in {"", "menteng.raywhite.co.id"} : PostHierarchy(k, s, t, o)

SpecAdmin == Init /\ [][NextAdmin]_vars


SpecCap == InitCap /\ [][Search]_vars


(***************************************************************************)
(* Properties.                                                             *)
(***************************************************************************)
\* the places of an event in the trace of a request
Places(r, ev) == {i \in 1..Len(req[r].log) : req[r].log[i] = ev}

Happened(r, ev) == Places(r, ev) # {}

\* every occurrence of ev comes after an occurrence of before
Preceded(r, ev, before) ==
    \A i \in Places(r, ev) : \E j \in Places(r, before) : j < i

\* the tenant's recorded tokens have reached the monthly limit of its plan
OverLimit(t) ==
    /\ t \in DOMAIN tokenUsageByTenant
    /\ tokenUsageByTenant[t].inputTokens + tokenUsageByTenant[t].outputTokens
          >= TOKEN_LIMITS[tokenUsageByTenant[t].plan].monthly

\* more than the reset interval has passed since the tenant's window began
WindowElapsed(t) ==
    /\ t \in DOMAIN tokenUsageByTenant
    /\ now - tokenUsageByTenant[t].lastReset > TOKEN_RESET_INTERVAL

\* request r runs its quota check in this step
ChecksQuota(r) == req[r].pc = "props" /\ req'[r].pc # "props"

\* request r starts a model call in this step
StartsModelCall(r) == req'[r].calls > req[r].calls

\* C1: a request whose tenant is at or over its plan's monthly limit when the
\* quota check runs is answered 429, has made and makes no model call, and
\* the tenant's usage record is left as it was.
C1_QuotaExceeded ==
    [][\A r \in Reqs :
          (ChecksQuota(r) /\ OverLimit(req[r].tenant)) =>
              /\ req'[r].pc = "done"
              /\ req'[r].status = 429
              /\ req'[r].calls = 0
              /\ ~StartsModelCall(r)
              /\ tokenUsageByTenant' = tokenUsageByTenant]_vars

C1_Witness ==
    \E r \in Reqs : req[r].pc = "done" /\ req[r].status = 429

\* C2: no model call is started while the tenant's recorded tokens are at or
\* over the monthly limit and the window has not elapsed.
C2_NoCallOverQuota ==
    [][\A r \in Reqs :
          StartsModelCall(r) =>
              ~(OverLimit(req[r].tenant) /\ ~WindowElapsed(req[r].tenant))]_vars

\* C3: a quota check made after the tenant's window has elapsed admits the
\* request.
C3_AdmittedAfterWindow ==
    [][\A r \in Reqs :
          (ChecksQuota(r) /\ WindowElapsed(req[r].tenant)) => req'[r].status # 429]_vars


\* the message is a non-empty string
ValidMessage(m) == m # NoMessage /\ m # {}

Severities(m) ==
    {detectMaliciousPrompt(m)[i].severity : i \in 1..Len(detectMaliciousPrompt(m))}

Severe(m) == Severities(m) \cap {"CRITICAL", "HIGH"} # {}

OnlyMedium(m) == Severities(m) = {"MEDIUM"}

Arrived(r) == req[r].pc # "idle" /\ ValidMessage(req[r].msg)

\* the records of detected threats in security_incidents
ThreatIncidents ==
    {i \in 1..Len(incidents) : "type" \notin DOMAIN incidents[i]}

\* C4: a message with a CRITICAL or HIGH threat ends with status 400 and the
\* refusal text; for that request no catalog is resolved, no quota checked,
\* no usage recorded and no model called.
C4_SevereBlocked ==
    \A r \in Reqs :
        (Arrived(r) /\ Severe(req[r].msg)) =>
            /\ req[r].pc \in {"incident", "done"}
            /\ req[r].pc = "done" =>
                  /\ req[r].status = 400
                  /\ req[r].hasText
                  /\ req[r].text = RefusalText
            /\ req[r].calls = 0
            /\ ~Happened(r, "resolve") /\ ~Happened(r, "quota")
            /\ ~Happened(r, "track") /\ ~Happened(r, "model")
            /\ req[r].tenant \notin DOMAIN tokenUsageByTenant

C4_Witness ==
    \E r \in Reqs :
        /\ Severe(req[r].msg) /\ req[r].pc = "done"
        /\ req[r].status = 400 /\ req[r].text = RefusalText

\* C5: every threat incident carries blocked = TRUE exactly when one of its
\* threats is CRITICAL or HIGH; a message with threats has its incident in
\* the log; and a message whose threats are all MEDIUM is not refused: it
\* goes on to the catalog, the quota check and the model.
C5_MediumContinues ==
    /\ \A i \in ThreatIncidents :
          incidents[i].blocked <=>
              \E k \in 1..Len(incidents[i].threats) :
                  incidents[i].threats[k].severity \in {"CRITICAL", "HIGH"}
    /\ \A r \in Reqs :
          (Arrived(r) /\ Severities(req[r].msg) # {}) =>
              \E i \in ThreatIncidents :
                  /\ incidents[i].tenantId = req[r].tenant
                  /\ incidents[i].message = req[r].msg
                  /\ incidents[i].blocked = Severe(req[r].msg)
    /\ \A r \in Reqs :
          (Arrived(r) /\ OnlyMedium(req[r].msg)) =>
              /\ req[r].status # 400
              /\ req[r].pc = "done" => Happened(r, "resolve") /\ Happened(r, "quota")
              /\ (req[r].pc = "done" /\ req[r].status = 200) => Happened(r, "model")

C5_Witness ==
    \E r \in Reqs :
        /\ OnlyMedium(req[r].msg) /\ req[r].pc = "done" /\ req[r].status = 200
        /\ Happened(r, "model")
        /\ \E i \in ThreatIncidents : ~incidents[i].blocked

\* C6 as stated: the security screen and the quota check both come before
\* the first catalog resolve and before the first model call.
C6_ChecksBeforeCatalog ==
    \A r \in Reqs :
        /\ Preceded(r, "resolve", "screen") /\ Preceded(r, "resolve", "quota")
        /\ Preceded(r, "model", "screen") /\ Preceded(r, "model", "quota")

\* C6 amended: the security screen comes before the first catalog resolve,
\* the quota check comes after that resolve, and both checks come before the
\* first model call.
C6_ScreenCatalogQuotaModel ==
    \A r \in Reqs :
        /\ Preceded(r, "resolve", "screen")
        /\ Preceded(r, "quota", "resolve")
        /\ Preceded(r, "model", "screen") /\ Preceded(r, "model", "quota")

C6_Witness ==
    \E r \in Reqs :
        Happened(r, "screen") /\ Happened(r, "resolve") /\ Happened(r, "quota")
            /\ Happened(r, "model")

\* the last place of an event in the trace of a request, 0 when it has none
LastPlace(r, ev) ==
    IF Happened(r, ev) THEN CHOOSE i \in Places(r, ev) : \A j \in Places(r, ev) : j <= i
    ELSE 0

\* the reply of r is a direct answer of the model or the reply to a tool call
ModelAnswered(r) ==
    /\ req[r].pc = "done" /\ req[r].status = 200
    /\ req[r].tool # "none" \/ req[r].mtext # <<>>

\* C7: every reply returned with a success status, for a direct answer and
\* for each tool, went through sanitizeResponse after the last model call.
C7_RepliesSanitized ==
    \A r \in Reqs :
        ModelAnswered(r) => LastPlace(r, "sanitize") > LastPlace(r, "model")


\* C8: the sanitized text holds no address on a foreign domain, no URL on a
\* foreign domain and no phone number, whatever else the text holds.
C8_NothingForeignLeft ==
    \A i \in 1..Len(sanOut.sanitized) :
        sanOut.sanitized[i] \notin {"femail", "furl", "phone"}

\* request r has a model call of the retry loop fail in this step
RetriesInLoop(r) == req[r].pc = "model1" /\ req'[r].retries = req[r].retries + 1

FailsOutOfLoop(r) ==
    /\ req[r].pc = "model1" /\ req'[r].pc = "done"
    /\ req'[r].status \in {500, 503}

\* C9: a request makes at most MODEL_PRIORITY.length attempts in the retry
\* loop; a failure that is retried was retryable, advanced the shared index
\* by one and sends the same message with the model at the new index; a
\* failure that ends the loop was not retryable or found the index on the
\* last model, and leaves the index where it was.
C9_RetryLoopBounded ==
    /\ [](\A r \in Reqs : req[r].calls <= NumModels /\ req[r].retries < NumModels)
    /\ [][\A r \in Reqs :
            /\ (RetriesInLoop(r) /\ req'[r].pc # "done") =>
                  /\ Retryable(req'[r].err)
                  /\ currentModelIndex' = currentModelIndex + 1
                  /\ currentModelIndex' <= Last
                  /\ req'[r].pc = "model1"
                  /\ req'[r].msg = req[r].msg
                  /\ req'[r].calls = req[r].calls + 1
                  /\ req'[r].usedModel = MODEL_PRIORITY[currentModelIndex']
            /\ FailsOutOfLoop(r) =>
                  /\ currentModelIndex' = currentModelIndex
                  /\ ~Retryable(req'[r].err) \/ currentModelIndex = Last
                  /\ req'[r].calls = req[r].calls]_vars

C9_Witness ==
    \E r \in Reqs :
        /\ req[r].pc = "done" /\ req[r].calls = NumModels
        /\ Retryable(req[r].err) /\ currentModelIndex = Last

\* C10: a request whose retry loop ends on a retryable error, the chain
\* having no model left, is answered 503 with the retry text.
C10_ExhaustedIs503 ==
    \A r \in Reqs :
        (req[r].pc = "done" /\ Retryable(req[r].err) /\ req[r].status >= 500) =>
            req[r].status = 503 /\ req[r].text = RetryText

\* request r is sent to the model for the first time in this step
FirstAttempt(r) == req[r].pc = "feedback" /\ req'[r].pc = "model1"

FollowUps(r) == Cardinality(Places(r, "followup"))

HandlersRun(r) == {i \in 1..Len(req[r].log) : req[r].log[i] \in Tools}

\* the model calls r made after its tool handler started
FunctionResponses(r) ==
    {i \in Places(r, "model") : \E j \in HandlersRun(r) : j < i}

C14_FailuresCarryText ==
    \A r \in Reqs :
        (req[r].pc = "done" /\ req[r].status >= 400) => req[r].hasText

\* a tool handler of r has failed: schedule_viewing lacked a required field,
\* or a send of an email failed
ToolFailed(r) ==
    /\ req[r].tool # "none"
    /\ req[r].err = "Missing required field" \/ Happened(r, "email failed")

\* C15: a request one of whose tool handlers failed, and whose model calls
\* did not, ends with status 200 and a text.
C15_ToolFailureIsSoft ==
    \A r \in Reqs :
        (req[r].pc = "done" /\ ToolFailed(r) /\ req[r].mtext # NoText
            /\ req[r].err \in {"", "Missing required field"}) =>
            req[r].status = 200 /\ req[r].hasText

\* the places in the trace of r where a send of an email settled
EmailsSettled(r) == Places(r, "email") \cup Places(r, "email failed")

\* C16: in schedule_viewing a settled visitor confirmation, sent or failed, is
\* followed by the attempt of the agent-lead email, and once both have
\* settled the turn ends with status 200 and the confirmation text; in
\* collect_visitor_info a failed agent notification is followed by the
\* function response to the model.
C16_EmailsBestEffort ==
    /\ [][\A r \in Reqs :
            (req[r].pc = "email" /\ req'[r] # req[r]) =>
                /\ req[r].path = "visitor_confirmation" =>
                      req'[r].pc = "email" /\ req'[r].path = "agent_lead"
                /\ req[r].path = "agent_lead" =>
                      /\ req'[r].pc = "done" /\ req'[r].status = 200
                      /\ req'[r].text = ConfirmationText
                /\ req[r].path = "collect_visitor_info" =>
                      req'[r].pc = "model2" /\ StartsModelCall(r)]_vars
    /\ [](\A r \in Reqs :
            (req[r].pc = "done" /\ req[r].tool = "schedule_viewing"
                /\ EmailsSettled(r) # {}) =>
                /\ Cardinality(EmailsSettled(r)) = 2
                /\ req[r].status = 200 /\ req[r].text = ConfirmationText)

\* the visitor confirmation failed, the agent-lead email was sent, and the
\* turn returned the confirmation
C16_Witness ==
    \E r \in Reqs :
        /\ req[r].pc = "done" /\ req[r].tool = "schedule_viewing"
        /\ req[r].status = 200 /\ req[r].text = ConfirmationText
        /\ \E i \in Places(r, "email failed"), j \in Places(r, "email") : i < j


\* the levels of the office search evaluated so far: every catalog resolved
\* after the personal one, which the handler resolves on arrival
Evaluated(r) == Tail(req[r].resolved)

\* request r is in or past the priority loop of search_office_database
InCascade(r) == req[r].searchPriority # <<>>

\* the priority loop of request r has ended
CascadeEnded(r) == req[r].path = "search_office_database"

\* the levels are taken in the order of the priority list, and the list of a
\* tenant of the hierarchy is its office (level 2), then national (level 3)
CascadeInOrder(r) ==
    /\ Len(Evaluated(r)) <= Len(req[r].searchPriority)
    /\ \A i \in 1..Len(Evaluated(r)) : Evaluated(r)[i] = req[r].searchPriority[i].source
    /\ req[r].tenant \in DOMAIN officeHierarchy =>
          /\ Len(req[r].searchPriority) = 2
          /\ req[r].searchPriority[1].level = 2
          /\ req[r].searchPriority[1].source = officeHierarchy[req[r].tenant].office
          /\ req[r].searchPriority[2].level = 3
          /\ req[r].searchPriority[2].source = officeHierarchy[req[r].tenant].national

\* the results come from the last level evaluated and carry its tags; an
\* empty result means every level was evaluated
CascadeResult(r) ==
    LET last == req[r].searchPriority[Len(Evaluated(r))]
    IN  IF req[r].results = <<>>
        THEN Len(Evaluated(r)) = Len(req[r].searchPriority)
        ELSE /\ req[r].searchedLevel = last
             /\ \A i \in 1..Len(req[r].results) :
                   /\ req[r].results[i].sourceTenant = last.source
                   /\ req[r].results[i].sourceLevel = last.level
                   /\ \E j \in 1..Len(SourceCatalog(last.source)) :
                         SourceCatalog(last.source)[j].id = req[r].results[i].id

\* the listings of the level just resolved that pass the criteria
LevelMatches(r) ==
    LET passes(p) == levelFilter(markedProps(<<p>>, Head(req[r].levels)), req[r].args) # <<>>
    IN  SelectSeq(req[r].got, passes)

\* C17: the office search takes the levels in priority order (office, level
\* 2, before national, level 3) and stops at the first level whose filtered
\* result is not empty: the results are that level's matches, tagged with its
\* tenant and level, and no later level's catalog is resolved; a level
\* without a match is followed by the next one.
C17_CascadeStopsAtFirstMatch ==
    [][\A r \in Reqs :
          /\ (InCascade(r) /\ req[r].pc = "level" /\ req'[r].pc # "level") =>
                IF LevelMatches(r) # <<>>
                THEN /\ CascadeEnded(r)'
                     /\ req'[r].resolved = req[r].resolved
                     /\ Len(req'[r].results) = Len(slice(LevelMatches(r), 5))
                     /\ \A i \in 1..Len(req'[r].results) :
                           req'[r].results[i].id = LevelMatches(r)[i].id
                ELSE /\ req'[r].results = <<>>
                     /\ Len(req[r].levels) > 1 =>
                           /\ ~CascadeEnded(r)'
                           /\ req'[r].resolved =
                                 Append(req[r].resolved, req[r].levels[2].source)
          /\ InCascade(r)' => CascadeInOrder(r)'
          /\ (InCascade(r)' /\ CascadeEnded(r)') => CascadeResult(r)']_vars

\* an agent's search found nothing at the office and ended at national
C17_Witness ==
    \E r \in Reqs :
        /\ req[r].pc = "done" /\ req[r].status = 200
        /\ CascadeEnded(r)
        /\ req[r].tenant \in DOMAIN officeHierarchy
        /\ req[r].results # <<>>
        /\ req[r].searchedLevel.level = 3
        /\ Len(Evaluated(r)) = 2

\* request r reaches the handler of search_office_database in this step
CallsOfficeSearch(r) ==
    /\ ~Happened(r, "search_office_database")
    /\ "search_office_database" \in {req'[r].log[i] : i \in 1..Len(req'[r].log)}

\* the tenant's co-brokerage configuration says enabled = false
CobrokerageOff(t) == t \in DOMAIN cobrokerageConfig /\ ~cobrokerageConfig[t].enabled

\* C18: with the tenant's co-brokerage configuration disabled, the office
\* search resolves no other tenant's catalog and returns an empty properties
\* list with an explanatory note, to the model and to the client.
C18_DisabledSearchesNothing ==
    [][\A r \in Reqs :
          /\ (CallsOfficeSearch(r) /\ CobrokerageOff(req[r].tenant)) =>
                req'[r].path = "office_disabled"
          /\ req'[r].path = "office_disabled" =>
                /\ \A i \in 1..Len(req'[r].resolved) :
                      req'[r].resolved[i] = req'[r].tenant
                /\ req'[r].searchPriority = <<>>
                /\ req'[r].results = <<>>
                /\ req'[r].sent = <<>>
                /\ req'[r].note = "not available"]_vars

\* a disabled tenant's office search was answered
C18_Witness ==
    \E r \in Reqs :
        /\ req[r].pc = "done" /\ req[r].status = 200
        /\ req[r].path = "office_disabled"
        /\ CobrokerageOff(req[r].tenant)
        /\ req[r].resolved = <<req[r].tenant>>

\* the fields of a listing that hold a link
LinkFields == {"url", "imageUrl", "image", "eflyer"}

\* the listings of an office search: those sent to the model and those sent
\* to the client
OfficeListings(r) ==
    IF req[r].tool = "search_office_database"
    THEN {req[r].results[i] : i \in 1..Len(req[r].results)}
            \cup {req[r].sent[i] : i \in 1..Len(req[r].sent)}
    ELSE {}

\* C19: no listing of an office search, in the tool result sent to the model
\* or in the properties sent to the client, has the url field; the links it
\* carries are image and eflyer only.
C19_NoUrlInOfficeResults ==
    \A r \in Reqs : \A p \in OfficeListings(r) :
        /\ "url" \notin DOMAIN p
        /\ (DOMAIN p) \cap LinkFields = {"image", "eflyer"}

\* an office search answered the client with listings
C19_Witness ==
    \E r \in Reqs :
        /\ req[r].pc = "done" /\ req[r].status = 200
        /\ req[r].tool = "search_office_database"
        /\ req[r].results # <<>>
        /\ req[r].sent # <<>>

\* the listings of the searched catalog passing the criteria as houses
HouseMatches == primaryFilter(searchIn.catalog, searchIn.args)

\* the listings passing the same criteria with the category apartment
ApartmentMatches ==
    primaryFilter(searchIn.catalog, [searchIn.args EXCEPT !.property_category = "apartemen"])

\* C20: a house search on a catalog without a matching house (the broadened
\* location included) but with listings passing the same location, type,
\* keyword and price criteria as apartments returns the first three of those
\* apartments of the tenant's catalog and a note naming apartments, in
\* multi-tenant as in single-tenant mode.
C20_ApartmentsForHouses ==
    ( /\ searchOut.done
      /\ searchIn.args.property_category = "rumah"
      /\ HouseMatches = <<>>
      /\ broadFilter(searchIn.catalog, searchIn.args) = <<>>
      /\ ApartmentMatches # <<>> )
    => /\ searchOut.topResults = slice(ApartmentMatches, 3)
       /\ searchOut.fallbackMessage = "apartments"

\* the listings the broadened location search finds
BroadMatches == broadFilter(searchIn.catalog, searchIn.args)

\* C21 as stated: when a location was given and the primary result is empty,
\* only the broadened-location ladder is attempted and the category ladder
\* is not run, even when the broadened search finds nothing.
C21_OneLadderPerSearch ==
    (searchOut.done /\ searchIn.args.location # {} /\ HouseMatches = <<>>)
    => "category" \notin searchOut.attempted

\* C21 amended: the category ladder is attempted exactly when the search was
\* for houses and the primary and the broadened search both found nothing;
\* a broadened search that finds listings returns them with its note, and
\* the result comes from one ladder at most.
C21_CategoryAfterBroadened ==
    searchOut.done =>
        /\ "category" \in searchOut.attempted <=>
              /\ searchIn.args.property_category = "rumah"
              /\ HouseMatches = <<>>
              /\ BroadMatches = <<>>
        /\ "location" \in searchOut.attempted <=>
              (HouseMatches = <<>> /\ searchIn.args.location # {})
        /\ (HouseMatches = <<>> /\ BroadMatches # <<>>) =>
              /\ searchOut.topResults = slice(BroadMatches, 3)
              /\ searchOut.fallbackMessage = "broadened"
        /\ searchOut.fallbackMessage \in {"apartments", "shophouses"} =>
              "category" \in searchOut.attempted

\* a house search with a location went through both ladders and returned
\* apartments
C21_Witness ==
    /\ searchOut.done
    /\ searchIn.args.location # {}
    /\ searchOut.attempted = {"location", "category"}
    /\ searchOut.fallbackMessage = "apartments"
    /\ searchOut.topResults # <<>>

\* price texts from which no numeric amount can be extracted
Unparseable(price) == price \in {"", "Contact for price", "Call us."}

\* the criteria of the search without the price limit
WithoutPrice == [searchIn.args EXCEPT !.max_price = 0]

\* listing p passes each filter with the price limit if it passes without
PriceKeeps(p) ==
    /\ primaryFilter(<<p>>, WithoutPrice) # <<>> => primaryFilter(<<p>>, searchIn.args) # <<>>
    /\ broadFilter(<<p>>, WithoutPrice) # <<>> => broadFilter(<<p>>, searchIn.args) # <<>>
    /\ \A category \in {"apartemen", "ruko"} :
          ladderFilter(<<p>>, WithoutPrice, category) # <<>>
             => ladderFilter(<<p>>, searchIn.args, category) # <<>>
    /\ levelFilter(markedProps(<<p>>, SearchLevel), WithoutPrice) # <<>>
          => \E i \in 1..Len(searchOut.filtered) : searchOut.filtered[i].p = p

\* C22: in a search with max_price a listing whose price text is
\* unparseable ("Contact for price", an empty or missing price, a text
\* without an amount) is kept by the primary filter and by every fallback
\* and cascade filter.
C22_UnparseableKept ==
    (searchOut.done /\ searchIn.args.max_price # 0) =>
        \A i \in 1..Len(searchIn.catalog) :
            Unparseable(searchIn.catalog[i].price) => PriceKeeps(searchIn.catalog[i])

\* a is a prefix of b
IsPrefix(a, b) == Len(a) <= Len(b) /\ \A i \in 1..Len(a) : a[i] = b[i]

\* the array the category fallbacks filter
GlobalProperties == IF searchIn.multiTenant THEN properties ELSE searchIn.catalog

\* the listings that passed the filters of the path the search ended on
Passed ==
    CASE searchOut.fallbackMessage = "broadened" -> BroadMatches
      [] searchOut.fallbackMessage = "apartments" ->
            ladderFilter(GlobalProperties, searchIn.args, "apartemen")
      [] searchOut.fallbackMessage = "shophouses" ->
            ladderFilter(GlobalProperties, searchIn.args, "ruko")
      [] OTHER -> HouseMatches

\* the listings of the catalog that pass the per-level filter, in order
LevelPassed == levelFilter(markedProps(searchIn.catalog, SearchLevel), searchIn.args)

\* C23: search_properties returns at most 3 listings and
\* search_office_database at most 5, on the primary path and on every
\* fallback path, and the listings returned are a prefix, in catalog order,
\* of those that passed the filters.
C23_ResultsCapped ==
    searchOut.done =>
        /\ Len(searchOut.topResults) <= 3
        /\ IsPrefix(searchOut.topResults, Passed)
        /\ Len(searchOut.officeResults) <= 5
        /\ Len(searchOut.officeResults) <= Len(LevelPassed)
        /\ \A i \in 1..Len(searchOut.officeResults) :
              searchOut.officeResults[i].id = LevelPassed[i].p.id

\* more listings passed than either cap lets through
C23_Witness ==
    /\ searchOut.done
    /\ Len(Passed) > 3 /\ Len(searchOut.topResults) = 3
    /\ Len(LevelPassed) > 5 /\ Len(searchOut.officeResults) = 5
    /\ \E i, j \in 1..Len(searchIn.catalog) : searchIn.catalog[i] # searchIn.catalog[j]

\* the ids of a list of listings, in order
Ids(list) == [i \in 1..Len(list) |-> list[i].id]

\* C30: on the same catalog and the same criteria (location, type,
\* category, max price) the per-level filter of search_office_database
\* selects exactly the listings the primary filter of search_properties
\* selects.
C30_LevelFilterIsPrimaryFilter ==
    (searchOut.done /\ searchIn.args.keyword = "" /\ searchIn.args.min_bedrooms = 0)
    => [i \in 1..Len(searchOut.filtered) |-> searchOut.filtered[i].p.id]
          = Ids(primaryFilter(searchIn.catalog, searchIn.args))

\* request r arrives in this step with a body whose message is missing or
\* is not a string
ArrivesInvalid(r) ==
    req[r].pc = "idle" /\ req'[r].pc # "idle" /\ ~ValidMessage(req'[r].msg)

\* C29: a chat request whose message is missing or not a string is answered
\* 400 and changes no server state: no incident is logged, no usage counter,
\* cache entry or model index changes, and no model call is made.
C29_InvalidMessageNoEffect ==
    [][\A r \in Reqs :
          /\ ArrivesInvalid(r) =>
                /\ req'[r].pc = "done" /\ req'[r].status = 400
                /\ req'[r].calls = 0 /\ req'[r].log = <<>> /\ req'[r].resolved = <<>>
                /\ UNCHANGED <<incidents, tokenUsageByTenant, propertiesByTenant,
                               cobrokerageConfig, currentModelIndex, model>>
          /\ (req[r].pc = "done" /\ ~ValidMessage(req[r].msg)) => req'[r] = req[r]]_vars

\* an invalid request was refused while the server held an incident, a
\* usage record and a cached catalog
C29_Witness ==
    \E r \in Reqs :
        /\ req[r].pc = "done" /\ req[r].status = 400 /\ ~ValidMessage(req[r].msg)
        /\ incidents # <<>>
        /\ DOMAIN tokenUsageByTenant # {}
        /\ DOMAIN propertiesByTenant # {}

\* C24: in multi-tenant mode the tenant of a request is the header
\* X-Tenant-ID, else the body field tenant, else the query parameter
\* tenant, else the default tenant; in single-tenant mode it is the default
\* tenant whatever the request carries.
C24_TenantPrecedence ==
    tenantOut.done =>
        tenantOut.tenantId =
            IF ~tenantIn.multiTenant THEN DEFAULT_TENANT
            ELSE IF tenantIn.header # "" THEN tenantIn.header
            ELSE IF tenantIn.body # "" THEN tenantIn.body
            ELSE IF tenantIn.query # "" THEN tenantIn.query
            ELSE DEFAULT_TENANT

\* request r calls getPropertiesForTenant in this step
Resolves(r) == req[r].pc = "idle" /\ req'[r].pc \in {"got", "loading"}

\* tenant t has no cache entry, or one at least the time-to-live old
Expired(t) ==
    \/ t \notin DOMAIN propertiesByTenant
    \/ now - propertiesByTenant[t].lastUpdated >= PROPERTIES_POLL_SEC

\* every entry but that of tenant t is left as it was
OnlyEntryChanged(t) ==
    /\ DOMAIN propertiesByTenant' = DOMAIN propertiesByTenant \cup {t}
    /\ \A u \in DOMAIN propertiesByTenant \ {t} :
          propertiesByTenant'[u] = propertiesByTenant[u]

\* C25: getPropertiesForTenant(t) calls the backing source if and only if t
\* has no cache entry or the entry is at least PROPERTIES_POLL_SEC old;
\* otherwise it returns the cached list without a source call; and after a
\* source call the whole entry of t is replaced by the loaded list.
C25_CacheTimeToLive ==
    [][\A r \in Reqs :
          /\ Resolves(r) =>
                /\ req'[r].pc = "loading" <=> Expired(req'[r].tenant)
                /\ req'[r].pc = "got" =>
                      req'[r].got = propertiesByTenant[req'[r].tenant].properties
                /\ UNCHANGED propertiesByTenant
          /\ (req[r].pc = "loading" /\ req'[r].pc = "got") =>
                /\ propertiesByTenant'[req[r].src].properties = req'[r].got
                /\ DOMAIN propertiesByTenant'[req[r].src] = {"properties", "lastUpdated"}
                /\ OnlyEntryChanged(req[r].src)]_vars

\* a source call is under way for a tenant whose entry has expired
C25_Witness ==
    \E r \in Reqs :
        /\ req[r].pc = "loading"
        /\ req[r].src \in DOMAIN propertiesByTenant
        /\ propertiesByTenant[req[r].src].properties # <<>>
        /\ req[r].t0 - propertiesByTenant[req[r].src].lastUpdated >= PROPERTIES_POLL_SEC

\* the descriptions of a list of listings are at most 2000 characters long
DescriptionsShort(list) == \A i \in 1..Len(list) : list[i].description <= 2000

\* C26: every listing held in a tenant's cache entry, and every listing a
\* resolve returns, has a description of at most 2000 characters, whether
\* the entry was set by a reload after the time-to-live or by a push
\* notification.
C26_DescriptionsCapped ==
    /\ \A t \in DOMAIN propertiesByTenant :
          DescriptionsShort(propertiesByTenant[t].properties)
    /\ \A r \in Reqs : req[r].pc = "got" => DescriptionsShort(req[r].got)

\* the notification handler sets the entry of its tenant in this step
NotificationInstalls == notify.pc = "loading" /\ notify'.pc = "done"

\* a notification for tenant t has set an entry less than the time-to-live ago
NotifiedWithinTTL(t) ==
    /\ t \in DOMAIN notify.installed
    /\ now - notify.installed[t].lastUpdated < PROPERTIES_POLL_SEC

\* C27: a push notification for the catalog object of tenant t replaces the
\* entry of t alone, and the next resolve of t within the time-to-live
\* returns the reloaded list without a source call; a notification for
\* another object changes no entry.
C27_NotificationReloadsOneTenant ==
    [][/\ NotificationInstalls =>
             /\ OnlyEntryChanged(notify.src)
             /\ propertiesByTenant'[notify.src].lastUpdated = now
       /\ (notify.pc # "loading" /\ notify' # notify) =>
             /\ UNCHANGED propertiesByTenant
             /\ notify'.pc = "loading" <=> notify'.src # ""
       /\ \A r \in Reqs :
             (Resolves(r) /\ NotifiedWithinTTL(req'[r].tenant)) =>
                /\ req'[r].pc = "got"
                /\ req'[r].got = notify.installed[req'[r].tenant].properties]_vars

(***************************************************************************)
(* C28  The warnings of validateResponse never change the reply: once the  *)
(* model has answered a search's function response with a text, the reply  *)
(* is status 200 with the sanitized text and the search's results, whether *)
(* validation found nothing or something and whether or not the add to     *)
(* hallucination_warnings failed.                                          *)
(***************************************************************************)
ValidatedPaths == {"search_properties", "search_office_database"}

\* the handler of r is past validation of a text
Validated(r) ==
    /\ req[r].path \in ValidatedPaths
    /\ req[r].pc \in {"done", "sanLog"}
    /\ req[r].validation # <<>> \/ Happened(r, "sanitize")

\* the reply is the one that the model's text and the results determine
ReplyOfTextAndResults(r) ==
    /\ req[r].hasText
    /\ req[r].text = sanitizeResponse(textResponse(req[r])).sanitized
    /\ req[r].pc = "done" => req[r].status = 200

C28_WarningsNeverChangeReply ==
    [][\A r \in Reqs :
          /\ req[r].pc \in {"model2", "valLog", "sanLog"} =>
                req'[r].results = req[r].results
          /\ Validated(r)' => ReplyOfTextAndResults(r)']_vars

C28_Witness ==
    \E r \in Reqs :
        /\ req[r].pc = "done"
        /\ req[r].path = "search_properties"
        /\ req[r].validation = <<"COUNT_MISMATCH">>
        /\ Happened(r, "warning log failed")
        /\ req[r].results # <<>>
        /\ req[r].status = 200


(***************************************************************************)
(* C31  When the conversation holds a relative-date phrase, the date       *)
(* returned is that phrase's date whatever the model supplied: today + 1   *)
(* for "tomorrow", today + 2 for "day after tomorrow", today + 7 for "next *)
(* week", today for "today", the coming Saturday for "this weekend".       *)
(***************************************************************************)
\* the dates a phrase may stand for on a given day
PhraseDates(phrase, today) ==
    CASE phrase = "tomorrow" -> {today + 1}
      [] phrase \in {"day after tomorrow", "lusa"} -> {today + 2}
      [] phrase = "next week" -> {today + 7}
      [] phrase = "today" -> {today}
      [] phrase = "this weekend" -> {d \in today..(today + 7) : d % 7 = 6}

C31_RelativePhraseOverrides ==
    dateOut.done =>
        \A phrase \in DatePhrases :
            dateIn.context = {phrase} =>
                dateOut.date \in PhraseDates(phrase, dateIn.today)

(***************************************************************************)
(* C32  The date returned is never earlier than today; without a relative  *)
(* phrase an unparseable or past date of the model yields tomorrow and a   *)
(* valid future date is returned unchanged.                                *)
(***************************************************************************)
C32_NeverBeforeToday ==
    dateOut.done =>
        /\ dateOut.date >= dateIn.today
        /\ dateIn.context = {} =>
              /\ (~dateIn.preferredDate.valid \/ dateIn.preferredDate.day < dateIn.today)
                    => dateOut.date = dateIn.today + 1
              /\ (dateIn.preferredDate.valid /\ dateIn.preferredDate.day > dateIn.today)
                    => dateOut.date = dateIn.preferredDate.day


(***************************************************************************)
(* C33  trackTokenUsage called after the window has elapsed zeroes the     *)
(* counters and the cost, sets the window start to now and then adds the   *)
(* request's tokens: the counters are that request's and requestCount is   *)
(* 1.  Called within the window it adds to the counters, adds one to       *)
(* requestCount and leaves the window start alone.                         *)
(***************************************************************************)
\* the step runs trackTokenUsage for request r
Tracks(r) == req[r].tracked = <<>> /\ req'[r].tracked # <<>>

\* the record trackTokenUsage starts from: the tenant's, or a new one
UsageBefore(t) ==
    IF t \in DOMAIN tokenUsageByTenant THEN tokenUsageByTenant[t]
    ELSE [inputTokens |-> 0, outputTokens |-> 0, totalCost |-> 0, requestCount |-> 0,
          lastReset |-> now, plan |-> "free"]

CostOf(usage) == usage[1] + 3 * usage[2]

C33_WindowRollover ==
    [][\A r \in Reqs :
          Tracks(r) =>
              LET before == UsageBefore(req[r].tenant)
                  after == tokenUsageByTenant'[req[r].tenant]
                  tokens == req'[r].tracked
              IN  IF now - before.lastReset > TOKEN_RESET_INTERVAL
                  THEN /\ after.inputTokens = tokens[1]
                       /\ after.outputTokens = tokens[2]
                       /\ after.totalCost = CostOf(tokens)
                       /\ after.requestCount = 1
                       /\ after.lastReset = now
                  ELSE /\ after.inputTokens = before.inputTokens + tokens[1]
                       /\ after.outputTokens = before.outputTokens + tokens[2]
                       /\ after.totalCost = before.totalCost + CostOf(tokens)
                       /\ after.requestCount = before.requestCount + 1
                       /\ after.lastReset = before.lastReset]_vars

\* a request has been tracked after the window elapsed, on counters that
\* were not zero, and the counters are now that request's
C33_Witness ==
    \E r \in Reqs, q \in Reqs :
        /\ r # q
        /\ req[q].tracked = <<1, 1>>
        /\ req[r].tracked = <<1, 0>>
        /\ req[r].trackedAt - req[q].trackedAt > TOKEN_RESET_INTERVAL
        /\ tokenUsageByTenant[req[r].tenant].lastReset = req[r].trackedAt
        /\ tokenUsageByTenant[req[r].tenant].inputTokens = 1
        /\ tokenUsageByTenant[req[r].tenant].outputTokens = 0
        /\ tokenUsageByTenant[req[r].tenant].requestCount = 1

(***************************************************************************)
(* C37  Increments are never lost: whatever the interleaving of the        *)
(* requests of a tenant, the tenant's inputTokens, outputTokens and        *)
(* requestCount are the sums over the requests tracked in the current      *)
(* window.                                                                 *)
(***************************************************************************)
\* the requests of tenant t whose trackTokenUsage ran in the current window
TrackedInWindow(t) ==
    {r \in Reqs : /\ req[r].tenant = t
                  /\ req[r].tracked # <<>>
                  /\ req[r].trackedAt >= tokenUsageByTenant[t].lastReset}

RECURSIVE TrackedSum(_, _)
TrackedSum(rs, i) ==
    IF rs = {} THEN 0
    ELSE LET r == CHOOSE x \in rs : TRUE
         IN  req[r].tracked[i] + TrackedSum(rs \ {r}, i)

C34_ModelFollowsIndex == model = MODEL_PRIORITY[currentModelIndex]

(***************************************************************************)
(* C35  currentModelIndex stays within 0 .. MODEL_PRIORITY.length - 1 and  *)
(* never decreases; once it is on the last model, a request whose model    *)
(* call fails is not retried.                                              *)
(***************************************************************************)
C35_IndexMonotone ==
    /\ [](currentModelIndex \in 0..Last)
    /\ [][/\ currentModelIndex' >= currentModelIndex
          /\ \A r \in Reqs :
                (currentModelIndex = Last /\ req[r].pc = "model1") =>
                    /\ req'[r].retries = req[r].retries
                    /\ req'[r].calls = req[r].calls \/ req'[r].pc = "model2"
                    /\ FailsOutOfLoop(r) => currentModelIndex' = Last]_vars

\* a request whose first attempt failed retryably on the last model, which
\* other requests had led to, and that was not retried
C35_Witness ==
    \E r \in Reqs :
        /\ req[r].pc = "done" /\ Retryable(req[r].err)
        /\ req[r].calls = 1 /\ req[r].retries = 0
        /\ currentModelIndex = Last

(***************************************************************************)
(* C36  Within the retry loop of one request the model of attempt k + 1 is *)
(* the immediate successor in MODEL_PRIORITY of the model of attempt k,    *)
(* also when other requests fall back concurrently.                        *)
(***************************************************************************)
\* the place of a model name in MODEL_PRIORITY
PlaceOf(name) == CHOOSE i \in 0..Last : MODEL_PRIORITY[i] = name

C36_RetryTakesSuccessor ==
    [][\A r \in Reqs :
          (RetriesInLoop(r) /\ req'[r].pc = "model1") =>
              PlaceOf(req'[r].usedModel) = PlaceOf(req[r].usedModel) + 1]_vars


(***************************************************************************)
(* C38  Once a notification for tenant t has installed a reloaded          *)
(* snapshot, a getPropertiesForTenant(t) call that began before it does    *)
(* not replace the snapshot with what it loaded, and the time stamp of an  *)
(* entry never moves backwards.                                            *)
(***************************************************************************)
\* r is loading t's catalog and t's entry is the one a notification set
\* after r began (r did not find it fresh)
BeganBeforeNotification(r, t) ==
    /\ req[r].pc = "loading" /\ req[r].src = t
    /\ t \in DOMAIN notify.installed
    /\ t \in DOMAIN propertiesByTenant
    /\ propertiesByTenant[t] = notify.installed[t]
    /\ req[r].t0 - propertiesByTenant[t].lastUpdated < PROPERTIES_POLL_SEC

C38_NoStaleOverwrite ==
    [][/\ \A t \in DOMAIN propertiesByTenant :
             propertiesByTenant'[t].lastUpdated >= propertiesByTenant[t].lastUpdated
       /\ \A r \in Reqs, t \in ChatTenants :
             (BeganBeforeNotification(r, t) /\ req'[r].pc # "loading") =>
                 propertiesByTenant'[t] = propertiesByTenant[t]]_vars


(***************************************************************************)
(* C39  Every listing returned for a search_properties call, on the        *)
(* primary, the broadened-location and the category fallback path, is a    *)
(* listing of the requesting tenant's own catalog snapshot; no listing of  *)
(* another tenant is returned.                                             *)
(***************************************************************************)
\* listing p, as stored or with its description cut, is in the list
MemberOf(p, list) ==
    \E j \in 1..Len(list) : p \in {list[j], truncateDescription(list[j])}

C39_OwnCatalogOnly ==
    \A r \in Reqs :
        req[r].path = "search_properties" =>
            \A i \in 1..Len(req[r].results) :
                /\ MemberOf(req[r].results[i], req[r].props)
                /\ MemberOf(req[r].results[i], SourceCatalog(req[r].tenant))
                /\ \A t \in Tenants \ {req[r].tenant} :
                      \A j \in 1..Len(SourceCatalog(t)) :
                          SourceCatalog(t)[j].id # req[r].results[i].id

\* a tenant is answered with a listing found by the broadened search while
\* the cache holds the catalog of the other tenant, whose house search went
\* through the category ladder
C39_Witness ==
    \E r \in Reqs, q \in Reqs :
        /\ req[r].pc = "done" /\ req[r].path = "search_properties"
        /\ req[r].note = "broadened" /\ req[r].results # <<>>
        /\ req[q].tenant # req[r].tenant
        /\ req[q].path = "search_properties"
        /\ req[q].args.property_category = "rumah" /\ req[q].results = <<>>
        /\ req[q].tenant \in DOMAIN propertiesByTenant


(***************************************************************************)
(* C40  A request to an admin mutation endpoint (tenant register,          *)
(* co-brokerage, hierarchy) changes the office hierarchy or the            *)
(* co-brokerage configuration only if it carries the configured admin key  *)
(* or a session token that POST /admin/login issued before.                *)
(***************************************************************************)
C40_AdminMutationsAuthenticated ==
    [][(hierarchy' # hierarchy \/ cobrokerageConfig' # cobrokerageConfig) =>
          \/ adminReq'.adminKey = ADMIN_KEY
          \/ adminReq'.sessionToken \in issued]_vars

=============================================================================
